---- MODULE Spec2Model ----
(***************************************************************************)
(* Model of the resolution-and-fetch server of wesscheid/ITX               *)
(* (src/server/server.js, the version that starts at line 453):            *)
(*   - POST /api/transcribe : one request, its fetch subprocess, the       *)
(*     callbacks registered on it and the inference call;                  *)
(*   - GET /api/resolve     : concurrent requests sharing metadataCache.   *)
(***************************************************************************)
EXTENDS Integers, Sequences, FiniteSets, TLC

(***************************************************************************)
(* Bounds of the model                                                     *)
(***************************************************************************)
MaxChunks == 3
MaxStderr == 2

(***************************************************************************)
(* Program constants                                                       *)
(***************************************************************************)
\* server.js:933  totalLength > 20 * 1024 * 1024
CEILING == 20 * 1024 * 1024

\* sizes of the stdout chunks the subprocess can deliver
ChunkSizes == {1, CEILING \div 2, CEILING}

(***************************************************************************)
(* Text of the diagnostic stream, as a sequence of tokens.  A "pct" token  *)
(* is a complete "[download]  <v>%" progress token, "noise" is any other   *)
(* text.                                                                   *)
(***************************************************************************)
Noise == [kind |-> "noise", v |-> 0]

Pct(v) == [kind |-> "pct", v |-> v]

\* the two pieces of a progress token that a chunk boundary cut in two
PctHead(v) == [kind |-> "head", v |-> v]

PctTail(v) == [kind |-> "tail", v |-> v]

StderrChunks ==
  { <<Noise>>, <<Pct(10)>>, <<Pct(50)>>, <<Noise, Pct(10)>>, <<Pct(10), Pct(50)>>,
    <<PctHead(50)>>, <<PctTail(50)>> }

\* the url field: absent, empty, a string, a value that is not a string and
\* truthy (123, [], {}), a value that is not a string and falsy (0, false,
\* null; a JSON body can hold one, a query string cannot)
NoUrl == "undefined"

NonStringUrl == "nonstring"

FalsyNonStringUrl == "zero"

\* req.body.url of POST /api/transcribe
UrlInputs == {NoUrl, "", "http://media/1", NonStringUrl, FalsyNonStringUrl}

\* req.query.url of GET /api/download
QueryUrlInputs == {NoUrl, "", "http://media/1", NonStringUrl}

CookieOutcomes == {"path", "null", "throw"}

SpawnOutcomes == {"ok", "enoent", "throw"}

InferenceOutcomes == {"rejects", "notext", "badjson", "partial", "full"}

VARIABLES
  tpc,          \* position of the /api/transcribe request
  turl,         \* req.body.url of the request
  res,          \* the response object of the request: calls made on it
  child,        \* state of the fetch subprocess
  chunks,       \* server.js:912  stdout chunks (their lengths)
  stderrData,   \* server.js:913  accumulated diagnostic text
  totalLength,  \* server.js:914
  killCalls,    \* number of child.kill() calls
  inferenceCalls, \* number of genAI.models.generateContent calls
  stderrEvents, \* number of 'data' events of the diagnostic stream
  spawnCount,   \* number of spawn() calls
  tempFiles,    \* number of credential files written
  \* ---- GET /api/resolve ----
  now,          \* Date.now()
  ticks,        \* number of clock steps taken
  metadataCache,\* server.js:470  Map: cleanUrl -> {data, timestamp}
  rpc,          \* position of each /api/resolve request
  rurl,         \* cleanUrl of each request
  rstderr,      \* stderr of the direct-URL attempt, kept by the closure
  execCalls,    \* number of exec() calls each request made
  responses,    \* what each request was answered with
  \* ---- one resolution followed through, and getCookiesPath ----
  run,          \* what the request and the tool hand the handler in this run
  cpc,          \* position of the getCookiesPath call
  csrc,         \* the cookie sources on disk and the temp directory
  rawCookies,   \* server.js:514  the cookie text the lookup found
  cookieFile,   \* content of the file written to tempPath
  \* ---- requests that write and use a credential file ----
  tmpdir,       \* os.tmpdir(): tempPath -> the file (text and how much of it
                \* is on disk)
  jpc,          \* position of each request that needs credentials
  jpath,        \* the tempPath getCookiesPath returned to each request
  jread,        \* what each request's subprocesses read from its --cookies
                \* file, in order
  \* ---- transcribeUrl, the client-side reader of the NDJSON stream ----
  kstream,      \* the text the response body carries
  kpos,         \* how much of it reader.read() has handed over
  buffer,       \* geminiService.ts:183
  finalResult,  \* geminiService.ts:184
  kcalls,       \* the onProgress calls made, in order
  klang,        \* the targetLanguage argument
  kresp,        \* the response fetch resolved with
  onProgress,   \* geminiService.ts:158  the optional callback was passed
  \* ---- GET /api/download ----
  dpc,          \* position of the /api/download request
  dres,         \* its response object
  dchild,       \* state of the download subprocess
  dchunks,      \* the stdout chunks the pipe has forwarded (their lengths)
  \* ---- retryWithBackoff ----
  bst,          \* the state of one retryWithBackoff call
  \* ---- fetchVideoFromUrl ----
  fpc,          \* position of the fetchVideoFromUrl call
  fst,          \* the state of the retryWithBackoff call it awaits
  fproxy,       \* index in MEDIA_PROXIES of the proxy being tried
  furl,         \* part_004:196  downloadUrl
  flog,         \* the attempts that have settled, in order
  fout,         \* how the promise settled
  kout          \* the promise: pending, resolved or rejected

\* the /api/transcribe request without the count of credential files
tcore == <<tpc, turl, res, child, chunks, stderrData, totalLength, killCalls,
           inferenceCalls, stderrEvents, spawnCount>>

tvars == <<tcore, tempFiles>>

rvars == <<now, ticks, metadataCache, rpc, rurl, rstderr, execCalls,
           responses>>

\* the credential-file harness without the temp directory
jcore == <<jpc, jpath, jread>>

jvars == <<tmpdir, jcore>>

kvars == <<kstream, kpos, buffer, finalResult, kcalls, klang, kresp,
           onProgress, kout>>

dvars == <<dpc, dres, dchild, dchunks>>

bvars == <<bst>>

fvars == <<fpc, fst, fproxy, furl, flog, fout>>

\* the variables of the operations followed on their own
yvars == <<kvars, dvars, bvars, fvars>>

\* everything but yvars
\* everything but yvars, the count of credential files and the temp directory
zcore == <<tcore, rvars, run, cpc, csrc, rawCookies, cookieFile, jcore>>

zvars == <<zcore, tempFiles, tmpdir>>

xcore == <<run, cpc, csrc, rawCookies, cookieFile, jcore, yvars>>

xvars == <<xcore, tmpdir>>

vars == <<tvars, rvars, xvars>>

(***************************************************************************)
(* The response object.  writes: every line passed to res.write, in order. *)
(* ends: for every res.end() call, the number of lines written before it.  *)
(* json: bodies sent with res.json.                                        *)
(***************************************************************************)
NewResponse ==
  [status |-> 200, contentType |-> "none", writes |-> <<>>, ends |-> <<>>,
   json |-> <<>>]

ResWrite(r, line) == [r EXCEPT !.writes = Append(@, line)]

ResEnd(r) == [r EXCEPT !.ends = Append(@, Len(r.writes))]

ResJson(r, status, body) ==
  [r EXCEPT !.status = status, !.contentType = "application/json",
            !.json = Append(@, body)]

ResSetNdjson(r) == [r EXCEPT !.contentType = "application/x-ndjson"]

\* what the HTTP stream carries: Node rejects a write made after end()
\* (ERR_STREAM_WRITE_AFTER_END), so only the lines before the first end()
Delivered(r) ==
  IF r.ends = <<>> THEN r.writes ELSE SubSeq(r.writes, 1, r.ends[1])

ProgressLine(p) == [type |-> "progress", value |-> p, stage |-> "downloading"]

StatusLine == [type |-> "status", message |-> "Processing audio with Gemini..."]

ResultLine(d) == [type |-> "result", data |-> d]

ErrorLine(d) == [type |-> "error", data |-> d]

\* a validation that only catches an absent url
FalsyOnlyMissing(url) == url = NoUrl

\* JS truthiness of the url field of the request body
Falsy(url) == url \in {NoUrl, "", FalsyNonStringUrl}

\* text.match(/\[download\]\s+(\d+\.\d+)%/): the first complete token, if any
RECURSIVE FirstPct(_)
FirstPct(text) ==
  IF text = <<>> THEN Noise
  ELSE IF Head(text).kind = "pct" THEN Head(text)
  ELSE FirstPct(Tail(text))

\* the message of the exception the close handler catches, per outcome
InferenceMessage(outcome) ==
  CASE outcome = "rejects" -> "quota exceeded"
    [] outcome = "notext"  -> "Gemini returned empty response"
    [] outcome = "badjson" -> "Unexpected token in JSON"

\* JSON.parse(response.text) of a response that parses
InferenceData(outcome) ==
  IF outcome = "full"
  THEN [originalText |-> "o", translatedText |-> "t", title |-> "T"]
  ELSE [originalText |-> "o", title |-> "T"]

InitTranscribe ==
  /\ tpc = "idle"
  /\ turl = NoUrl
  /\ res = NewResponse
  /\ child = "none"
  /\ chunks = <<>>
  /\ stderrData = <<>>
  /\ totalLength = 0
  /\ killCalls = 0
  /\ inferenceCalls = 0
  /\ stderrEvents = 0
  /\ spawnCount = 0
  /\ tempFiles = 0

\* server.js:595  path.join(os.tmpdir(), `cookies_${Date.now()}.txt`)
TempPath(t) == t

\* a file of the temp directory: the text written to it, and how much of the
\* text is on disk (fs.writeFileSync opens with truncation, writes, closes)
File(text, size) == [text |-> text, size |-> size]

Whole(text) == File(text, "whole")

\* what a process that opens the file now reads
Bytes(file) == IF file.size = "empty" THEN File("", "empty") ELSE file

\* the directory after the file at path was set to content
WriteFile(path, content) ==
  [q \in DOMAIN tmpdir \cup {path} |-> IF q = path THEN content ELSE tmpdir[q]]

\* server.js:595-600, 670, 712  getCookiesPath has written the credentials to
\* tempPath when it returns a path
WroteCookies(cookie) ==
  /\ tempFiles' = IF cookie = "path" THEN tempFiles + 1 ELSE tempFiles
  /\ tmpdir' = IF cookie = "path"
               THEN WriteFile(TempPath(now), Whole("cookies")) ELSE tmpdir

\* server.js:1010-1014  outer catch
OuterCatch(r, message) == ResEnd(ResWrite(r, ErrorLine([message |-> message])))

\* server.js:877-1015  the synchronous part of the handler
TranscribeRequest(url, cookie, spawned) ==
  /\ tpc = "idle"
  /\ turl' = url
  /\ UNCHANGED <<chunks, stderrData, totalLength, killCalls, inferenceCalls,
                 stderrEvents>>
  /\ UNCHANGED <<rvars, xcore>>
  /\ IF Falsy(url)
     THEN /\ res' = ResJson(res, 400, [error |-> "Missing URL"])
          /\ tpc' = "rejected"
          /\ UNCHANGED <<child, spawnCount, tempFiles, tmpdir>>
     ELSE IF url = NonStringUrl \/ cookie = "throw"
     THEN \* getCookiesPath throws (toLowerCase of a non-string, readFileSync)
          /\ res' = OuterCatch(ResSetNdjson(res), "getCookiesPath failed")
          /\ tpc' = "done"
          /\ UNCHANGED <<child, spawnCount, tempFiles, tmpdir>>
     ELSE /\ WroteCookies(cookie)
          /\ spawnCount' = spawnCount + 1
          /\ IF spawned = "throw"
             THEN /\ res' = OuterCatch(ResSetNdjson(res), "spawn failed")
                  /\ tpc' = "done"
                  /\ UNCHANGED child
             ELSE /\ res' = ResSetNdjson(res)
                  /\ tpc' = "fetching"
                  /\ child' = IF spawned = "ok" THEN "running" ELSE "spawnfail"

\* server.js:917-927  child.stderr.on("data")
OnStderrData(r, text) ==
  IF FirstPct(text).kind = "pct"
  THEN ResWrite(r, ProgressLine(FirstPct(text).v))
  ELSE r

StderrData(text) ==
  /\ child = "running"
  /\ stderrEvents < MaxStderr
  /\ stderrEvents' = stderrEvents + 1
  /\ stderrData' = stderrData \o text
  /\ res' = OnStderrData(res, text)
  /\ UNCHANGED <<tpc, turl, child, chunks, totalLength, killCalls, inferenceCalls,
                 spawnCount, tempFiles>>
  /\ UNCHANGED <<rvars, xvars>>

\* server.js:929-937  child.stdout.on("data").  The pipe stays readable after
\* child.kill(): data in flight, or written by a producer that survives the
\* signal, is still delivered.
StdoutData(len) ==
  /\ child = "running"
  /\ Len(chunks) < MaxChunks
  /\ chunks' = Append(chunks, len)
  /\ totalLength' = totalLength + len
  /\ killCalls' = IF totalLength + len > CEILING THEN killCalls + 1 ELSE killCalls
  /\ UNCHANGED <<tpc, turl, res, child, stderrData, inferenceCalls, stderrEvents,
                 spawnCount, tempFiles>>
  /\ UNCHANGED <<rvars, xvars>>

\* server.js:1004-1008  child.on("error"): the subprocess could not be started
ChildError ==
  /\ child = "spawnfail"
  /\ res' = ResEnd(ResWrite(res,
               ErrorLine([message |-> "Failed to start downloader process"])))
  /\ child' = "errored"
  /\ UNCHANGED <<tpc, turl, chunks, stderrData, totalLength, killCalls,
                 inferenceCalls, stderrEvents, spawnCount, tempFiles>>
  /\ UNCHANGED <<rvars, xvars>>

\* Buffer.concat(chunks).length
RECURSIVE BufferLength(_)
BufferLength(cs) == IF cs = <<>> THEN 0 ELSE Head(cs) + BufferLength(Tail(cs))

\* an empty-buffer branch that leaves the diagnostic text out
OnCloseEmptyBare(r) ==
  ResEnd(ResWrite(r, ErrorLine([error |-> "Failed to fetch media bytes."])))

\* an empty-buffer branch that returns without answering
OnCloseEmptySilent(r) == r

\* server.js:942-947  the close handler when no byte was captured
OnCloseEmpty(r) ==
  ResEnd(ResWrite(r, ErrorLine([error |-> "Failed to fetch media bytes.",
                                details |-> stderrData])))

\* a close handler that announces the inference before looking at the buffer
OnCloseStatusFirst(r) ==
  IF BufferLength(chunks) = 0
  THEN OnCloseEmpty(ResWrite(r, StatusLine))
  ELSE ResWrite(r, StatusLine)

\* server.js:939-952  child.on("close") up to the await: what it does to res
OnClose(r) ==
  IF BufferLength(chunks) = 0 THEN OnCloseEmpty(r) ELSE ResWrite(r, StatusLine)

\* Node emits 'close' once the stdio streams have ended, also after the
\* 'error' of a failed spawn.
ChildClose ==
  /\ child \in {"running", "errored"}
  /\ child' = "closed"
  /\ res' = OnClose(res)
  /\ IF BufferLength(chunks) = 0
     THEN /\ tpc' = "done"
          /\ UNCHANGED inferenceCalls
     ELSE /\ inferenceCalls' = inferenceCalls + 1
          /\ tpc' = "inference"
  /\ UNCHANGED <<turl, chunks, stderrData, totalLength, killCalls,
                 stderrEvents, spawnCount, tempFiles>>
  /\ UNCHANGED <<rvars, xvars>>

\* server.js:983-1001  the close handler after the await
OnInference(r, outcome) ==
  IF outcome \in {"rejects", "notext", "badjson"}
  THEN ResEnd(ResWrite(r, ErrorLine([message |-> InferenceMessage(outcome)])))
  ELSE ResEnd(ResWrite(r, ResultLine(InferenceData(outcome))))

InferenceSettles(outcome) ==
  /\ tpc = "inference"
  /\ res' = OnInference(res, outcome)
  /\ tpc' = "done"
  /\ UNCHANGED <<turl, child, chunks, stderrData, totalLength, killCalls,
                 inferenceCalls, stderrEvents, spawnCount, tempFiles>>
  /\ UNCHANGED <<rvars, xvars>>

(***************************************************************************)
(* GET /api/resolve                                                        *)
(***************************************************************************)
\* server.js:471  10 * 60 * 1000
CACHE_TTL == 10 * 60 * 1000

NumReq == 2

MaxTicks == 2

Req == 1..NumReq

\* the clock advances by one millisecond or by just under the TTL
TimeSteps == {1, CACHE_TTL - 1}

\* the url query parameter: absent, a string (a sequence of characters), or
\* an array (?url=a&url=b)
Str(text) == [kind |-> "string", text |-> text]

QueryUrls ==
  { [kind |-> "missing", text |-> <<>>], [kind |-> "array", text |-> <<>>],
    Str(<<>>), Str(<<"a">>), Str(<<" ", "a">>), Str(<<"b">>) }

TAB == "\t"

NL == "\n"

\* white space as String.prototype.trim and the regular expression class \s
\* see it
IsSpace(c) == c \in {" ", TAB, NL}

\* String.prototype.trim
RECURSIVE TrimLeft(_)
TrimLeft(text) ==
  IF text # <<>> /\ IsSpace(Head(text)) THEN TrimLeft(Tail(text)) ELSE text

RECURSIVE TrimRight(_)
TrimRight(text) ==
  IF text # <<>> /\ IsSpace(text[Len(text)])
  THEN TrimRight(SubSeq(text, 1, Len(text) - 1))
  ELSE text

Trim(text) == TrimRight(TrimLeft(text))

\* what exec hands the callback of the direct-URL attempt
DirectStdouts == { <<>>, <<" ">>, <<"v", " ">> }

DirectStderrs == {"", "WARNING: x"}

\* the JSON document of the metadata fallback; "" and <<>> stand for an absent
\* (falsy) field
Fmt(v, a, u) == [vcodec |-> v, acodec |-> a, url |-> u]

Doc(u, fs, th, ti) ==
  [kind |-> "doc", url |-> u, formats |-> fs, thumbnail |-> th, title |-> ti,
   uploader |-> "", channel |-> "", extractor_key |-> "Generic",
   duration |-> 7]

MetaOutputs ==
  { [kind |-> "garbage"],
    Doc("", <<Fmt("v", "a", "f1"), Fmt("v", "a", "f2"), Fmt("v", "none", "f3")>>,
        "thumb", "Clip"),
    Doc("", <<Fmt("none", "a", "f1")>>, "thumb", "") }

MetaErrors == {"", "Command failed"}

NoEntry == [data |-> [type |-> "none"], timestamp |-> -1]

InitResolve ==
  /\ now = 0
  /\ ticks = 0
  /\ metadataCache = << >>
  /\ rpc = [r \in Req |-> "idle"]
  /\ rurl = [r \in Req |-> <<>>]
  /\ rstderr = [r \in Req |-> ""]
  /\ execCalls = [r \in Req |-> 0]
  /\ responses = [r \in Req |-> <<>>]

\* metadataCache.get(key)
CacheGet(key) ==
  IF key \in DOMAIN metadataCache THEN metadataCache[key] ELSE NoEntry

\* an insert that stores the value before its fields are all filled in
CacheSetPartial(key, data) ==
  [k \in DOMAIN metadataCache \cup {key} |->
     IF k = key
     THEN [data |-> [type |-> data.type, preview_url |-> data.preview_url],
           timestamp |-> now]
     ELSE metadataCache[k]]

\* an insert that drops the entries of other urls
CacheSetAlone(key, data) ==
  [k \in {key} |-> [data |-> data, timestamp |-> now]]

\* metadataCache.set(key, {data, timestamp: Date.now()})
CacheSet(key, data) ==
  [k \in DOMAIN metadataCache \cup {key} |->
     IF k = key THEN [data |-> data, timestamp |-> now] ELSE metadataCache[k]]

\* a cache check that forgets the TTL
CacheFreshNoTtl(key) == key \in DOMAIN metadataCache

\* server.js:741  cached && Date.now() - cached.timestamp < CACHE_TTL
CacheFresh(key) ==
  /\ key \in DOMAIN metadataCache
  /\ now - metadataCache[key].timestamp < CACHE_TTL

\* encodeURIComponent: letters are kept, a space becomes %20
EncodeChar(c) == IF c = " " THEN "%20" ELSE c

EncodeURIComponent(text) == [i \in DOMAIN text |-> EncodeChar(text[i])]

\* server.js:759  `/api/download?url=${encodeURIComponent(cleanUrl)}`
DownloadUrl(cleanUrl) == <<"/api/download?url=">> \o EncodeURIComponent(cleanUrl)

Reply(status, body) == [status |-> status, body |-> body]

Tick(d) ==
  /\ ticks < MaxTicks
  /\ ticks' = ticks + 1
  /\ now' = now + d
  /\ UNCHANGED <<metadataCache, rpc, rurl, rstderr, execCalls, responses>>
  /\ UNCHANGED <<tvars, xvars>>

\* server.js:727-746  the request gets as far as the call of getCookiesPath,
\* which writes the credential file when it returns a path
ReachesCookies(url, ytdlp) ==
  /\ url.kind = "string" /\ url.text # <<>>
  /\ ytdlp
  /\ ~CacheFresh(Trim(url.text))

\* server.js:726-752  the handler up to the first exec
ResolveRequest(r, url, ytdlp, cookie) ==
  /\ rpc[r] = "idle"
  /\ UNCHANGED <<now, ticks, metadataCache, rstderr>>
  /\ UNCHANGED <<tcore, xcore>>
  /\ IF ReachesCookies(url, ytdlp)
     THEN WroteCookies(cookie)
     ELSE UNCHANGED <<tempFiles, tmpdir>>
  /\ IF url.kind = "missing" \/ (url.kind = "string" /\ url.text = <<>>)
     THEN /\ responses' = [responses EXCEPT
                  ![r] = Append(@, Reply(400, [error |-> "Missing URL"]))]
          /\ rpc' = [rpc EXCEPT ![r] = "done"]
          /\ UNCHANGED <<rurl, execCalls>>
     ELSE IF ~ytdlp
     THEN /\ responses' = [responses EXCEPT
                  ![r] = Append(@, Reply(503, [error |-> "yt-dlp not installed"]))]
          /\ rpc' = [rpc EXCEPT ![r] = "done"]
          /\ UNCHANGED <<rurl, execCalls>>
     ELSE IF url.kind = "array"
     THEN \* url.trim is not a function: the framework's error handler answers
          /\ responses' = [responses EXCEPT
                  ![r] = Append(@, Reply(500, [framework |-> "TypeError"]))]
          /\ rpc' = [rpc EXCEPT ![r] = "done"]
          /\ UNCHANGED <<rurl, execCalls>>
     ELSE /\ rurl' = [rurl EXCEPT ![r] = Trim(url.text)]
          /\ IF CacheFresh(Trim(url.text))
             THEN /\ responses' = [responses EXCEPT
                      ![r] = Append(@, Reply(200, CacheGet(Trim(url.text)).data))]
                  /\ rpc' = [rpc EXCEPT ![r] = "done"]
                  /\ UNCHANGED execCalls
             ELSE IF cookie = "throw"
             THEN \* getCookiesPath throws outside any try
                  /\ responses' = [responses EXCEPT
                      ![r] = Append(@, Reply(500, [framework |-> "Error"]))]
                  /\ rpc' = [rpc EXCEPT ![r] = "done"]
                  /\ UNCHANGED execCalls
             ELSE /\ execCalls' = [execCalls EXCEPT ![r] = @ + 1]
                  /\ rpc' = [rpc EXCEPT ![r] = "direct"]
                  /\ UNCHANGED responses

\* a value built from the tool's output as printed, and from the url as given
DirectDataUntrimmed(cleanUrl, stdout) ==
  [type |-> "video", can_preview |-> TRUE, preview_url |-> stdout,
   download_url |-> <<"/api/download?url=">> \o cleanUrl,
   title |-> "Video Media"]

\* server.js:755-761  the value built from a direct URL
DirectData(cleanUrl, stdout) ==
  [type |-> "video", can_preview |-> TRUE, preview_url |-> Trim(stdout),
   download_url |-> DownloadUrl(cleanUrl), title |-> "Video Media"]

\* a test that takes text on the diagnostic stream for a failure
DirectOkQuiet(err, stdout, stderr) ==
  ~err /\ Trim(stdout) # <<>> /\ stderr = ""

\* server.js:753  !err && stdout.trim()
DirectOk(err, stdout, stderr) == ~err /\ Trim(stdout) # <<>>

\* server.js:752-774  callback of the direct-URL exec
DirectDone(r, err, stdout, stderr) ==
  /\ rpc[r] = "direct"
  /\ UNCHANGED <<now, ticks, rurl>>
  /\ UNCHANGED <<tvars, xvars>>
  /\ IF DirectOk(err, stdout, stderr)
     THEN /\ metadataCache' = CacheSet(rurl[r], DirectData(rurl[r], stdout))
          /\ responses' = [responses EXCEPT
                 ![r] = Append(@, Reply(200, DirectData(rurl[r], stdout)))]
          /\ rpc' = [rpc EXCEPT ![r] = "done"]
          /\ UNCHANGED <<execCalls, rstderr>>
     ELSE /\ execCalls' = [execCalls EXCEPT ![r] = @ + 1]
          /\ rstderr' = [rstderr EXCEPT ![r] = stderr]
          /\ rpc' = [rpc EXCEPT ![r] = "meta"]
          /\ UNCHANGED <<metadataCache, responses>>

\* a selection that takes the first combined format instead of the last
RECURSIVE FirstCombined(_)
FirstCombined(fs) ==
  IF fs = <<>> THEN ""
  ELSE IF Head(fs).vcodec # "none" /\ Head(fs).acodec # "none"
  THEN Head(fs).url
  ELSE FirstCombined(Tail(fs))

\* server.js:787-791  previewUrl
RECURSIVE LastCombined(_)
LastCombined(fs) ==
  IF fs = <<>> THEN ""
  ELSE IF fs[Len(fs)].vcodec # "none" /\ fs[Len(fs)].acodec # "none"
  THEN fs[Len(fs)].url
  ELSE LastCombined(SubSeq(fs, 1, Len(fs) - 1))

PreviewUrl(doc) == IF doc.url # "" THEN doc.url ELSE LastCombined(doc.formats)

Or(a, b) == IF a # "" THEN a ELSE b

\* server.js:793-802  responseData
MetaData(cleanUrl, doc) ==
  [type |-> "video",
   can_preview |-> PreviewUrl(doc) # "",
   preview_url |-> Or(PreviewUrl(doc), Or(doc.thumbnail, "null")),
   download_url |-> DownloadUrl(cleanUrl),
   username |-> Or(doc.uploader, Or(doc.channel, "unknown")),
   title |-> Or(doc.title, "Video Media"),
   is_youtube |-> doc.extractor_key = "Youtube",
   duration |-> doc.duration]

\* server.js:774-810  callback of the metadata exec; the closure that held
\* stderr is released when it returns
MetaDone(r, mErr, mOut) ==
  /\ rpc[r] = "meta"
  /\ rstderr' = [rstderr EXCEPT ![r] = ""]
  /\ UNCHANGED <<now, ticks, rurl, execCalls>>
  /\ UNCHANGED <<tvars, xvars>>
  /\ rpc' = [rpc EXCEPT ![r] = "done"]
  /\ IF mErr # ""
     THEN /\ responses' = [responses EXCEPT ![r] = Append(@,
                 Reply(500, [error |-> "Failed to resolve video",
                             details |-> Or(rstderr[r], mErr)]))]
          /\ UNCHANGED metadataCache
     ELSE IF mOut.kind # "doc"
     THEN /\ responses' = [responses EXCEPT ![r] = Append(@,
                 Reply(500, [error |-> "Failed to parse video metadata"]))]
          /\ UNCHANGED metadataCache
     ELSE /\ metadataCache' = CacheSet(rurl[r], MetaData(rurl[r], mOut))
          /\ responses' = [responses EXCEPT ![r] = Append(@,
                 Reply(200, MetaData(rurl[r], mOut)))]

(***************************************************************************)
(* getCookiesPath.  A text is a sequence of glyphs: TAB, NL, a space, or a  *)
(* glyph that stands for one or more characters that are not white space   *)
(* ("TRUE", "Netscape", a run of digits such as "17", a domain label).      *)
(***************************************************************************)
MaxLines == 2

\* String.prototype.startsWith
StartsWith(text, prefix) ==
  Len(text) >= Len(prefix) /\ SubSeq(text, 1, Len(prefix)) = prefix

\* String.prototype.includes
Includes(text, pat) ==
  \E i \in 1..(Len(text) - Len(pat) + 1) : SubSeq(text, i, i + Len(pat) - 1) = pat

\* number of leading glyphs of text that satisfy the class
RECURSIVE LeadSpaces(_)
LeadSpaces(text) ==
  IF text # <<>> /\ IsSpace(Head(text)) THEN 1 + LeadSpaces(Tail(text)) ELSE 0

RECURSIVE LeadWord(_)
LeadWord(text) ==
  IF text # <<>> /\ ~IsSpace(Head(text)) THEN 1 + LeadWord(Tail(text)) ELSE 0

\* runs of digits, the regular expression class \d+
DigitRuns == {ToString(n) : n \in 0..20}

RECURSIVE LeadDigits(_)
LeadDigits(text) ==
  IF text # <<>> /\ Head(text) \in DigitRuns THEN 1 + LeadDigits(Tail(text)) ELSE 0

Drop(text, n) == SubSeq(text, n + 1, Len(text))

\* String.prototype.split(sep) for a separator of one glyph
RECURSIVE Split(_, _)
Split(text, sep) ==
  IF \A i \in DOMAIN text : text[i] # sep
  THEN <<text>>
  ELSE LET i == CHOOSE k \in DOMAIN text :
                  text[k] = sep /\ \A j \in 1..(k - 1) : text[j] # sep
       IN <<SubSeq(text, 1, i - 1)>> \o Split(Drop(text, i), sep)

\* Array.prototype.join(sep), sep a text
RECURSIVE Join(_, _)
Join(parts, sep) ==
  IF parts = <<>> THEN <<>>
  ELSE IF Len(parts) = 1 THEN parts[1]
  ELSE parts[1] \o sep \o Join(Tail(parts), sep)

\* l.split(/\s+/) of a text without leading or trailing white space
RECURSIVE Words(_)
Words(text) ==
  IF text = <<>> THEN <<>>
  ELSE <<SubSeq(text, 1, LeadWord(text))>>
         \o Words(Drop(Drop(text, LeadWord(text)),
                       LeadSpaces(Drop(text, LeadWord(text)))))

\* "".split(/\s+/) is [""]
WordCount(text) == IF text = <<>> THEN 1 ELSE Len(Words(text))

\* the vertical bars of a pasted table; the box-drawing bar is treated alike
Bars == {"|"}

\* server.js:685  line.replace(/^[|]?\s*\d+\s+/, "")
StripLineNumber(line) ==
  LET a == IF line # <<>> /\ Head(line) \in Bars THEN Tail(line) ELSE line
      b == Drop(a, LeadSpaces(a))
      c == Drop(b, LeadDigits(b))
  IN IF LeadDigits(b) >= 1 /\ LeadSpaces(c) >= 1
     THEN Drop(c, LeadSpaces(c))
     ELSE line

\* server.js:685  .replace(/[|]\s*$/, "")
StripTrailingBar(line) ==
  LET t == TrimRight(line)
  IN IF t # <<>> /\ t[Len(t)] \in Bars THEN SubSeq(t, 1, Len(t) - 1) ELSE line

HeaderText == <<"#", " ", "Netscape", " ", "HTTP", " ", "Cookie", " ", "File">>

NetscapePrefix == <<"#", " ", "Netscape">>

\* server.js:594-602  branch A: the text is taken as already normalized
NormalizeA(trimmed) ==
  (IF StartsWith(trimmed, NetscapePrefix)
   THEN trimmed
   ELSE HeaderText \o <<NL>> \o trimmed) \o <<NL>>

\* a cookie object of a JSON export; <<>> and 0 stand for an absent field,
\* expirationDate is in tenths of a second
Cookie(domain, httpOnly, secure, expirationDate, value) ==
  [isNull |-> FALSE, domain |-> domain, httpOnly |-> httpOnly, path |-> <<>>,
   secure |-> secure, expirationDate |-> expirationDate, name |-> <<"n">>,
   value |-> value]

NullItem == [Cookie(<<>>, FALSE, FALSE, 0, <<>>) EXCEPT !.isNull = TRUE]

\* a dot is put before every domain that has none
OutDomainAlwaysDotted(domain, httpOnly) ==
  IF ~StartsWith(domain, <<".">>) /\ ~httpOnly THEN <<".">> \o domain ELSE domain

\* server.js:654-657  outDomain
OutDomain(domain, httpOnly) ==
  IF domain # <<>> /\ ~StartsWith(domain, <<".">>) /\ Includes(domain, <<".">>)
     /\ ~httpOnly
  THEN <<".">> \o domain
  ELSE domain

\* server.js:648-666  one line of netscapeLines
NetscapeLine(c) ==
  (IF c.httpOnly THEN <<"#", "HttpOnly_">> ELSE <<>>)
  \o OutDomain(c.domain, c.httpOnly)
  \o <<TAB, "TRUE", TAB>>
  \o (IF c.path # <<>> THEN c.path ELSE <<"/">>)
  \o <<TAB, IF c.secure THEN "TRUE" ELSE "FALSE", TAB>>
  \o <<IF c.expirationDate # 0 THEN ToString(c.expirationDate \div 10)
       ELSE "0">>
  \o <<TAB>> \o c.name \o <<TAB>> \o c.value

\* server.js:632-645  allCookies: the items of every block that parses
RECURSIVE AllCookies(_)
AllCookies(blocks) ==
  IF blocks = <<>> THEN <<>>
  ELSE (IF Head(blocks).kind = "bad" THEN <<>> ELSE Head(blocks).items)
       \o AllCookies(Tail(blocks))

\* server.js:668  finalCookies
NormalizeB(cookies) ==
  HeaderText \o <<NL>>
  \o Join([i \in DOMAIN cookies |-> NetscapeLine(cookies[i])], <<NL>>)
  \o <<NL>>

\* server.js:685  one input line with the paste artifacts removed
CleanLine(line) == Trim(StripTrailingBar(StripLineNumber(line)))

\* server.js:683-696  cleanedLines
RECURSIVE CleanedLines(_, _)
CleanedLines(lines, acc) ==
  IF lines = <<>> THEN acc
  ELSE LET l == CleanLine(Head(lines))
       IN CleanedLines(Tail(lines),
            IF l = <<>> THEN acc
            ELSE IF WordCount(l) >= 7 \/ StartsWith(l, <<"#">>)
                    \/ StartsWith(l, <<".">>)
            THEN Append(acc, l)
            ELSE IF acc # <<>>
            THEN [acc EXCEPT ![Len(acc)] = @ \o l]
            ELSE acc)

\* server.js:698-707  finalLines
FinalLine(l) ==
  IF StartsWith(l, <<"#", " ">>) THEN l
  ELSE IF ~Includes(l, <<TAB>>) /\ Len(Words(l)) >= 7
  THEN Join(SubSeq(Words(l), 1, 6), <<TAB>>) \o <<TAB>>
         \o Join(Drop(Words(l), 6), <<" ">>)
  ELSE l

\* server.js:679-710  branch C: cleanCookies
NormalizeC(trimmed) ==
  LET cleaned == CleanedLines(Split(trimmed, NL), <<>>)
  IN HeaderText \o <<NL>>
     \o Join([i \in DOMAIN cleaned |-> FinalLine(cleaned[i])], <<NL>>)
     \o <<NL>>

\* server.js:590-714  the text written to tempPath for a cookie blob; blob.text
\* is its text and blob.blocks the top-level JSON values the scan of
\* 615-630 finds in it (used only when the text starts with a bracket)
Normalize(blob) ==
  LET trimmed == Trim(blob.text)
      cookies == AllCookies(blob.blocks)
  IN IF StartsWith(trimmed, NetscapePrefix)
        \/ Includes(trimmed, <<TAB, "TRUE", TAB>>)
     THEN NormalizeA(trimmed)
     ELSE IF /\ (StartsWith(trimmed, <<"{">>) \/ StartsWith(trimmed, <<"[">>))
             /\ cookies # <<>>
             /\ \A i \in DOMAIN cookies : ~cookies[i].isNull
     THEN NormalizeB(cookies)
     ELSE NormalizeC(trimmed)

\* a cookie blob: its text, and for a JSON export its top-level values
Text(text) == [text |-> text, blocks |-> <<>>]

Block(kind, items) == [kind |-> kind, items |-> items]

Json(blocks) == [text |-> <<"[", "{", "x", "}", "]">>, blocks |-> blocks]

\* a cookie line of a flat file: domain, flag, path, secure, expiry, name,
\* value
CookieLine(domain, flag, value) ==
  domain \o <<TAB, flag, TAB, "/", TAB, "FALSE", TAB, "0", TAB, "n", TAB>>
  \o value

CookieLines ==
  { CookieLine(d, f, v) :
      d \in {<<".", "d">>, <<"d">>, <<"#", "HttpOnly_", ".", "d">>},
      f \in {"TRUE", "FALSE"},
      v \in {<<"v">>, <<>>, <<"v", " ", "w">>} }

\* flat files: optional comment lines, then cookie lines, each line ended by
\* a newline
WellFormedTexts ==
  { Join(head \o body, <<NL>>) \o <<NL>> :
      head \in {<<>>, <<HeaderText>>, <<<<"#", " ", "note">>>>},
      body \in UNION { [1..n -> CookieLines] : n \in 1..MaxLines } }

\* pasted and damaged texts
MessyTexts ==
  { <<"x", TAB, "TRUE", TAB, "y">>,
    <<"junk">>,
    <<" ", NL>>,
    <<".", "d", TAB, "FALSE">>,
    <<".", "d", TAB, "FALSE", NL, "rest">>,
    <<"1", " ", ".", "d", " ", "TRUE", " ", "/", " ", "FALSE", " ", "0", " ",
      "n", " ", "v", " ", "w">>,
    <<"|", " ", "12", " ", "d", " ", "FALSE", " ", "/", " ", "FALSE", " ", "0",
      " ", "n", " ", "v", " ", "|">> }

CookieObjects ==
  { Cookie(d, h, se[1], se[2], <<"v">>) :
      d \in {<<"d", ".", "c">>, <<".", "d", ".", "c">>, <<"localhost">>, <<>>},
      h \in BOOLEAN,
      se \in {<<FALSE, 0>>, <<TRUE, 175>>} }

CookieArrays == UNION { [1..n -> CookieObjects] : n \in 1..MaxLines }

JsonBlobs ==
  { Json(<<Block("array", a)>>) : a \in CookieArrays }
  \cup { Json(<<Block("wrapper", <<c>>)>>) : c \in CookieObjects }
  \cup { Json(<<Block("object", <<c>>)>>) : c \in CookieObjects }
  \cup { Json(<<Block("array", <<c>>), Block("bad", <<>>), Block("array", <<c>>)>>) :
           c \in CookieObjects }
  \cup { Json(<<>>), Json(<<Block("bad", <<>>)>>), Json(<<Block("array", <<>>)>>),
         Json(<<Block("array", <<NullItem>>)>>) }

CookieBlobs ==
  { Text(t) : t \in WellFormedTexts \cup MessyTexts } \cup JsonBlobs

FileStates == {"absent", "readable", "unreadable"}

\* the cookie sources getCookiesPath looks at: site is the kind of targetUrl
\* (none, of a site with its own cookie file, of another site, not a string);
\* content is what every readable source holds
Sources ==
  [site : {"none", "known", "other", "nonstring"},
   domainFile : FileStates, domainEnv : BOOLEAN, secretFile : FileStates,
   igEnv : BOOLEAN, rootTxt : FileStates, rootEnv : FileStates,
   tmpWritable : BOOLEAN,
   content : {Text(<<>>), Text(HeaderText \o <<NL>>), Json(<<Block("bad", <<>>)>>)}]

\* only ../cookies.txt exists, holding the blob
RootTxtOnly(blob) ==
  [site |-> "other", domainFile |-> "absent", domainEnv |-> FALSE,
   secretFile |-> "absent", igEnv |-> FALSE, rootTxt |-> "readable",
   rootEnv |-> "absent", tmpWritable |-> TRUE, content |-> blob]

\* server.js:516-554  the site's own file, else its environment variable
LookupSite(src) ==
  IF src.site # "known" THEN "miss"
  ELSE IF src.domainFile = "unreadable" THEN "throw"
  ELSE IF src.domainFile = "readable" \/ src.domainEnv
  THEN (IF src.content.text # <<>> THEN "found" ELSE "miss")
  ELSE "miss"

\* server.js:557-588  the generic sources; only the read of the secret file
\* is inside a try
LookupGeneric(src) ==
  IF src.secretFile = "readable" /\ src.content.text # <<>> THEN "found"
  ELSE IF src.igEnv /\ src.content.text # <<>> THEN "found"
  ELSE IF src.rootTxt = "unreadable" THEN "throw"
  ELSE IF src.rootTxt = "readable"
  THEN (IF src.content.text # <<>> THEN "found" ELSE "null")
  ELSE IF src.rootEnv = "unreadable" THEN "throw"
  ELSE IF src.rootEnv = "readable" /\ src.content.text # <<>> THEN "found"
  ELSE "null"

\* server.js:512-588  rawCookies after the lookup: found, null, or the lookup
\* threw
Lookup(src) ==
  IF src.site = "nonstring" THEN "throw"
  ELSE IF LookupSite(src) \in {"throw", "found"} THEN LookupSite(src)
  ELSE LookupGeneric(src)

\* server.js:511-719  getCookiesPath(targetUrl)
GetCookiesPath ==
  /\ cpc = "idle"
  /\ cpc' = IF Lookup(csrc) = "found"
            THEN (IF csrc.tmpWritable THEN "path" ELSE "null")
            ELSE Lookup(csrc)
  /\ rawCookies' = IF Lookup(csrc) = "found" THEN csrc.content.text ELSE <<>>
  /\ cookieFile' = IF Lookup(csrc) = "found" /\ csrc.tmpWritable
                   THEN Normalize(csrc.content)
                   ELSE cookieFile
  /\ tmpdir' = IF Lookup(csrc) = "found" /\ csrc.tmpWritable
               THEN WriteFile(TempPath(now), Whole(Normalize(csrc.content)))
               ELSE tmpdir
  /\ tempFiles' = IF Lookup(csrc) = "found" /\ csrc.tmpWritable
                  THEN tempFiles + 1 ELSE tempFiles
  /\ UNCHANGED <<csrc, run, jcore, yvars>>
  /\ UNCHANGED <<tcore, rvars>>

NextCookies == GetCookiesPath

(***************************************************************************)
(* Requests that need credentials: each calls getCookiesPath, which writes  *)
(* the temp file, and starts a subprocess that reads it (--cookies).        *)
(***************************************************************************)
\* the cookies a request needs: those of the site its url belongs to
CredKinds == {"x", "instagram"}

InitCred ==
  /\ tmpdir = << >>
  /\ jpc = [r \in Req |-> "idle"]
  /\ jpath = [r \in Req |-> -1]
  /\ jread = [r \in Req |-> <<>>]

\* server.js:746, 833, 898 and 595-600  the handler calls getCookiesPath(url)
\* and fs.writeFileSync(tempPath, ...) opens the file with truncation.  The
\* handler runs to its spawn without another handler in between; the
\* subprocesses of earlier requests run meanwhile.
CredWrite(r, kind) ==
  /\ jpc[r] = "idle"
  /\ \A q \in Req : jpc[q] # "writing"
  /\ tmpdir' = WriteFile(TempPath(now), File(kind, "empty"))
  /\ jpath' = [jpath EXCEPT ![r] = TempPath(now)]
  /\ jpc' = [jpc EXCEPT ![r] = "writing"]
  /\ UNCHANGED <<jread, run, cpc, csrc, rawCookies, cookieFile, yvars>>
  /\ UNCHANGED <<tvars, rvars>>

\* server.js:600  fs.writeFileSync: a part of the text has reached the file
CredWritePart(r) ==
  /\ jpc[r] = "writing"
  /\ tmpdir[jpath[r]].size = "empty"
  /\ tmpdir' = WriteFile(jpath[r], File(tmpdir[jpath[r]].text, "part"))
  /\ UNCHANGED <<jcore, run, cpc, csrc, rawCookies, cookieFile, yvars>>
  /\ UNCHANGED <<tvars, rvars>>

\* server.js:600-601 and 752, 854, 911  fs.writeFileSync returns with the
\* whole text in the file, getCookiesPath returns tempPath and the handler
\* starts the subprocess with --cookies tempPath
CredWriteEnd(r) ==
  /\ jpc[r] = "writing"
  /\ tmpdir' = WriteFile(jpath[r], Whole(tmpdir[jpath[r]].text))
  /\ tempFiles' = tempFiles + 1
  /\ jpc' = [jpc EXCEPT ![r] = "spawned"]
  /\ UNCHANGED <<jpath, jread, run, cpc, csrc, rawCookies, cookieFile, yvars>>
  /\ UNCHANGED <<tcore, rvars>>

\* the subprocess a request started last opens the --cookies file and reads
\* what is in it
CredRead(r) ==
  /\ jpc[r] \in {"spawned", "fallback"}
  /\ jread' = [jread EXCEPT ![r] = Append(@, Bytes(tmpdir[jpath[r]]))]
  /\ jpc' = [jpc EXCEPT ![r] = IF jpc[r] = "spawned" THEN "read" ELSE "reread"]
  /\ UNCHANGED <<tmpdir, jpath, run, cpc, csrc, rawCookies, cookieFile, yvars>>
  /\ UNCHANGED <<tvars, rvars>>

\* server.js:770-774  a /api/resolve request whose direct attempt gave no
\* url starts the metadata subprocess with the same ${cookieArg}: the path
\* written when the request came in
CredFallback(r) ==
  /\ jpc[r] = "read"
  /\ jpc' = [jpc EXCEPT ![r] = "fallback"]
  /\ UNCHANGED <<tmpdir, jpath, jread, run, cpc, csrc, rawCookies, cookieFile,
                 yvars>>
  /\ UNCHANGED <<tvars, rvars>>

NextCred ==
  \/ \E d \in TimeSteps : Tick(d)
  \/ \E r \in Req, k \in CredKinds : CredWrite(r, k)
  \/ \E r \in Req : CredWritePart(r)
  \/ \E r \in Req : CredWriteEnd(r)
  \/ \E r \in Req : CredRead(r)
  \/ \E r \in Req : CredFallback(r)

(***************************************************************************)
(* transcribeUrl (src/src/services/geminiService.ts): the loop that reads   *)
(* the NDJSON response.  The text is a sequence of glyphs; a line of the    *)
(* server is two glyphs followed by NL, so that a read can end inside it. *)
(***************************************************************************)
MaxMsgs == 2

TargetLanguages == {"English", "Spanish"}

\* the response of POST /api/transcribe as fetch hands it over
Response(ok, status, statusText, body) ==
  [ok |-> ok, status |-> status, statusText |-> statusText, body |-> body]

JsonBody(error) == [kind |-> "json", error |-> error]

OkResponse(kind) == Response(TRUE, 200, "OK", [kind |-> kind, error |-> ""])

NoResponse == Response(TRUE, 0, "", [kind |-> "none", error |-> ""])

\* responses that are not ok: the server's 400, JSON bodies of other senders
\* with and without an error field, and a page that is not JSON
ErrorResponses ==
  { Response(FALSE, 400, "Bad Request", JsonBody("Missing URL")),
    Response(FALSE, 413, "Payload Too Large", JsonBody("request entity too large")),
    Response(FALSE, 500, "Internal Server Error", JsonBody("")),
    Response(FALSE, 502, "Bad Gateway", [kind |-> "html", error |-> ""]) }

Msg(type, value, message, data) ==
  [type |-> type, value |-> value, message |-> message, data |-> data]

NoData == [message |-> "", error |-> "", title |-> ""]

\* the lines JSON.parse accepts, with the value it returns
ClientMessages ==
  { [text |-> <<"{progress:", "10}">>, msg |-> Msg("progress", 10, "", NoData)],
    [text |-> <<"{progress:", "50}">>, msg |-> Msg("progress", 50, "", NoData)],
    [text |-> <<"{status:", "Processing}">>,
     msg |-> Msg("status", 0, "Processing audio with Gemini...", NoData)],
    [text |-> <<"{result:", "T}">>,
     msg |-> Msg("result", 0, "", [NoData EXCEPT !.title = "T"])],
    [text |-> <<"{result:", "U}">>,
     msg |-> Msg("result", 0, "", [NoData EXCEPT !.title = "U"])],
    [text |-> <<"{error:", "message}">>,
     msg |-> Msg("error", 0, "", [NoData EXCEPT !.message = "Failed to start downloader process"])],
    [text |-> <<"{error:", "error}">>,
     msg |-> Msg("error", 0, "", [NoData EXCEPT !.error = "Failed to fetch media bytes."])] }

\* lines of a stream: the server's, one that is not JSON, one of white space
StreamLines ==
  {m.text : m \in ClientMessages} \cup { <<"{progress:", "1">>, <<" ">> }

\* what follows the last newline: nothing, or a line that is not terminated
StreamTails == { <<>>, <<"{error:", "message}">> }

ClientStreams ==
  { Join(ls, <<NL>>) \o (IF ls = <<>> THEN <<>> ELSE <<NL>>) \o tail :
      ls \in UNION { [1..n -> StreamLines] : n \in 0..MaxMsgs },
      tail \in StreamTails }

\* the sizes of the chunks reader.read() hands over: part of a line, a line
\* and more, or all that is left
ReadSizes(left) == {1, 2, 4, left}

\* JSON.parse(line) succeeds
Parses(line) == \E m \in ClientMessages : m.text = line

\* JSON.parse(line)
ParseLine(line) == (CHOOSE m \in ClientMessages : m.text = line).msg

\* the state of the loop: onProgress calls, finalResult, and the error thrown
LoopState(calls, result, thrown) ==
  [calls |-> calls, result |-> result, thrown |-> thrown]

NotThrown == "<none>"

\* geminiService.ts:184  finalResult = null
NoResult == [null |-> TRUE]

\* the promise transcribeUrl returned
Rejected(message) == [state |-> "rejected", value |-> [message |-> message]]

Resolved(result) == [state |-> "resolved", value |-> result]

Unsettled(state) == [state |-> state, value |-> [message |-> ""]]

ProgressCall(progress, message) == [progress |-> progress, message |-> message]

\* a catch that rethrows the SyntaxError
OnSyntaxErrorRethrow(st) == [st EXCEPT !.thrown = "SyntaxError"]

\* geminiService.ts:230-233  the catch: a SyntaxError is logged, the loop
\* continues
OnSyntaxError(st) == st

\* geminiService.ts:225  msg.data?.message || msg.data?.error || '...'
ErrorMessage(data) == Or(data.message, Or(data.error, "Unknown server error"))

\* geminiService.ts:218-221  { ...msg.data, language: targetLanguage }
WithLanguage(data) == [title |-> data.title, language |-> klang]

\* a reader that keeps the first result it saw
SetResultOnce(st, data) ==
  IF st.result = NoResult THEN [st EXCEPT !.result = WithLanguage(data)] ELSE st

\* geminiService.ts:217-222  case 'result'
SetResult(st, data) == [st EXCEPT !.result = WithLanguage(data)]

\* geminiService.ts:205-207, 211-214  if (onProgress) onProgress(...)
CallOnProgress(st, progress, message) ==
  IF onProgress
  THEN [st EXCEPT !.calls = Append(@, ProgressCall(progress, message))]
  ELSE st

\* geminiService.ts:198-235  the body of the for loop for one line
ProcessLine(st, line) ==
  IF Trim(line) = <<>> THEN st
  ELSE IF ~Parses(line) THEN OnSyntaxError(st)
  ELSE LET msg == ParseLine(line)
       IN IF msg.type = "progress"
          THEN CallOnProgress(st, msg.value, "Downloading media...")
          ELSE IF msg.type = "status"
          THEN CallOnProgress(st, 100, msg.message)
          ELSE IF msg.type = "result"
          THEN SetResult(st, msg.data)
          ELSE [st EXCEPT !.thrown = ErrorMessage(msg.data)]

\* geminiService.ts:197-236  the for loop: it ends at the first throw
RECURSIVE ProcessLines(_, _)
ProcessLines(st, lines) ==
  IF lines = <<>> \/ st.thrown # NotThrown THEN st
  ELSE ProcessLines(ProcessLine(st, Head(lines)), Tail(lines))

\* a reader that starts every read with an empty buffer
RetainedNothing(lines) == <<>>

\* geminiService.ts:195  buffer = lines.pop() || ''
Retained(lines) == lines[Len(lines)]

InitClientIdle ==
  /\ kstream = <<>>
  /\ kpos = 0
  /\ buffer = <<>>
  /\ finalResult = NoResult
  /\ kcalls = <<>>
  /\ klang = ""
  /\ kresp = NoResponse
  /\ onProgress = FALSE
  /\ kout = Unsettled("idle")

\* the call, up to `await fetch(...)`: the response carries a stream, or no
\* body, or is not ok
InitClient ==
  /\ \/ kresp = OkResponse("stream") /\ kstream \in ClientStreams
     \/ kresp \in {OkResponse("none")} \cup ErrorResponses /\ kstream = <<>>
  /\ klang \in TargetLanguages
  /\ onProgress \in BOOLEAN
  /\ kpos = 0
  /\ buffer = <<>>
  /\ finalResult = NoResult
  /\ kcalls = <<>>
  /\ kout = Unsettled("fetching")

\* geminiService.ts:169-174  the try and its catch: what is thrown inside the
\* try, by response.json() or by the throw statement, is caught by the catch
ThrownInTry(resp) ==
  IF resp.body.kind = "json"
  THEN Or(resp.body.error, "Failed to transcribe video")
  ELSE "SyntaxError"

ServerError(resp) ==
  "Server error: " \o ToString(resp.status) \o " " \o resp.statusText

CatchNotOk(resp, e) == ServerError(resp)

\* geminiService.ts:160-184  fetch has resolved: a response that is not ok
\* has its body read (await response.json()), one without a body rejects,
\* one with a body gets its reader
FetchResponse ==
  /\ kout.state = "fetching"
  /\ kout' = IF ~kresp.ok THEN Unsettled("json")
             ELSE IF kresp.body.kind = "none"
             THEN Rejected("No response body received")
             ELSE Unsettled("pending")
  /\ UNCHANGED <<kstream, kpos, buffer, finalResult, kcalls, klang, kresp,
                 onProgress>>
  /\ UNCHANGED <<zvars, dvars, bvars, fvars>>

\* geminiService.ts:170-174  response.json() has settled: the throw of the
\* try, or the rejection of response.json(), is caught and the catch throws
JsonSettles ==
  /\ kout.state = "json"
  /\ kout' = Rejected(CatchNotOk(kresp, ThrownInTry(kresp)))
  /\ UNCHANGED <<kstream, kpos, buffer, finalResult, kcalls, klang, kresp,
                 onProgress>>
  /\ UNCHANGED <<zvars, dvars, bvars, fvars>>

\* geminiService.ts:186-237  one turn of the while loop: reader.read() hands
\* over the next n glyphs
ReadChunk(n) ==
  /\ kout.state = "pending"
  /\ n >= 1
  /\ kpos + n <= Len(kstream)
  /\ kpos' = kpos + n
  /\ LET lines == Split(buffer \o SubSeq(kstream, kpos + 1, kpos + n), NL)
         st == ProcessLines(LoopState(kcalls, finalResult, NotThrown),
                            SubSeq(lines, 1, Len(lines) - 1))
     IN /\ buffer' = Retained(lines)
        /\ kcalls' = st.calls
        /\ finalResult' = st.result
        /\ kout' = IF st.thrown # NotThrown THEN Rejected(st.thrown) ELSE kout
  /\ UNCHANGED <<kstream, klang, kresp, onProgress>>
  /\ UNCHANGED <<zvars, dvars, bvars, fvars>>

\* geminiService.ts:187-188, 239-243  reader.read() reports done
ReadDone ==
  /\ kout.state = "pending"
  /\ kpos = Len(kstream)
  /\ kout' = IF finalResult = NoResult
             THEN Rejected("Stream ended without a result")
             ELSE Resolved(finalResult)
  /\ UNCHANGED <<kstream, kpos, buffer, finalResult, kcalls, klang, kresp,
                 onProgress>>
  /\ UNCHANGED <<zvars, dvars, bvars, fvars>>

NextClient ==
  \/ FetchResponse
  \/ JsonSettles
  \/ \E n \in ReadSizes(Len(kstream) - kpos) : ReadChunk(n)
  \/ ReadDone

(***************************************************************************)
(* GET /api/download                                                       *)
(* The response: status and contentType as set so far, json the bodies     *)
(* sent with res.json, body the number of bytes written, headersSent, and  *)
(* ends the number of res.end() calls (a res.json ends the response too).  *)
(***************************************************************************)
NewDownloadResponse ==
  [status |-> 200, contentType |-> "none", json |-> <<>>, body |-> 0,
   headersSent |-> FALSE, ends |-> 0]

\* res.status(status).json(body)
DlJson(r, status, body) ==
  [r EXCEPT !.status = status, !.contentType = "application/json",
            !.json = Append(@, body), !.headersSent = TRUE, !.ends = @ + 1]

\* server.js:827-831  the two setHeader calls
DlSetVideoHeaders(r) == [r EXCEPT !.contentType = "video/mp4"]

\* res.write(chunk), as child.stdout.pipe(res) calls it
DlWrite(r, len) == [r EXCEPT !.body = @ + len, !.headersSent = TRUE]

\* res.end()
DlEnd(r) == [r EXCEPT !.headersSent = TRUE, !.ends = @ + 1]

\* Express's default error handler, for a handler that throws before the
\* headers are sent: status 500 and an HTML page
DlExpressError(r) ==
  [r EXCEPT !.status = 500, !.contentType = "text/html",
            !.headersSent = TRUE, !.ends = @ + 1]

\* sizes of the chunks the download subprocess writes to its stdout
DownloadSizes == {1, 2, 3}

\* server.js:854  spawn starts the process, fails to (an 'error' event), or
\* throws at once (an argument that holds a NUL byte)
SpawnEvents == {"ok", "enoent", "throw"}

InitDownload ==
  /\ dpc = "idle"
  /\ dres = NewDownloadResponse
  /\ dchild = "none"
  /\ dchunks = <<>>

\* server.js:815-874  the synchronous part of the handler
DownloadRequest(url, exists, cookie, spawned) ==
  /\ dpc = "idle"
  /\ dchunks' = dchunks
  /\ UNCHANGED <<zcore, kvars, bvars, fvars>>
  /\ IF Falsy(url)
     THEN /\ dres' = DlJson(dres, 400, [error |-> "Missing URL"])
          /\ dpc' = "rejected"
          /\ UNCHANGED <<dchild, tempFiles, tmpdir>>
     ELSE IF ~exists
     THEN /\ dres' = DlJson(dres, 503, [error |-> "yt-dlp not available"])
          /\ dpc' = "rejected"
          /\ UNCHANGED <<dchild, tempFiles, tmpdir>>
     ELSE IF url = NonStringUrl \/ cookie = "throw"
     THEN \* getCookiesPath throws after the headers were set
          /\ dres' = DlExpressError(DlSetVideoHeaders(dres))
          /\ dpc' = "threw"
          /\ UNCHANGED <<dchild, tempFiles, tmpdir>>
     ELSE /\ WroteCookies(cookie)
          /\ IF spawned = "throw"
             THEN \* spawn throws after the headers were set
                  /\ dres' = DlExpressError(DlSetVideoHeaders(dres))
                  /\ dpc' = "threw"
                  /\ dchild' = dchild
             ELSE /\ dres' = DlSetVideoHeaders(dres)
                  /\ dpc' = "streaming"
                  /\ dchild' = IF spawned = "ok" THEN "running" ELSE "spawnfail"

\* server.js:855  child.stdout.pipe(res): a chunk of stdout is written to res
DownloadStdout(len) ==
  /\ dchild = "running"
  /\ Len(dchunks) < MaxChunks
  /\ dchunks' = Append(dchunks, len)
  /\ dres' = DlWrite(dres, len)
  /\ UNCHANGED <<dpc, dchild>>
  /\ UNCHANGED <<zvars, kvars, bvars, fvars>>

\* server.js:855  child.stdout.pipe(res): stdout ends and the pipe ends res.
\* After a failed start the unused stdout pipe may end too, or just close.
DownloadStdoutEnd ==
  /\ dchild \in {"running", "errored"}
  /\ dres.ends = IF dchild = "running" THEN 0 ELSE 1
  /\ dchild' = IF dchild = "running" THEN "ended" ELSE dchild
  /\ dres' = DlEnd(dres)
  /\ UNCHANGED <<dpc, dchunks>>
  /\ UNCHANGED <<zvars, kvars, bvars, fvars>>

\* server.js:865-868  child.on("error")
OnDownloadError(r) ==
  IF ~r.headersSent THEN DlEnd([r EXCEPT !.status = 500]) ELSE r

DownloadError ==
  /\ dchild = "spawnfail"
  /\ dchild' = "errored"
  /\ dres' = OnDownloadError(dres)
  /\ UNCHANGED <<dpc, dchunks>>
  /\ UNCHANGED <<zvars, kvars, bvars, fvars>>

\* server.js:870-873  child.on("close")
OnDownloadClose(r) == IF ~r.headersSent THEN DlEnd(r) ELSE r

DownloadClose ==
  /\ dchild \in {"ended", "errored"}
  /\ dchild' = IF dchild = "ended" THEN "closed" ELSE "closedfailed"
  /\ dres' = OnDownloadClose(dres)
  /\ dpc' = "done"
  /\ UNCHANGED dchunks
  /\ UNCHANGED <<zvars, kvars, bvars, fvars>>

NextDownload ==
  \/ \E url \in QueryUrlInputs, e \in BOOLEAN, c \in CookieOutcomes,
        s \in SpawnEvents : DownloadRequest(url, e, c, s)
  \/ \E len \in DownloadSizes : DownloadStdout(len)
  \/ DownloadStdoutEnd
  \/ DownloadError
  \/ DownloadClose

(***************************************************************************)
(* retryWithBackoff (src/unnamed/part_004:175-193)                         *)
(* The state of a call: its arguments, the loop variable i, where it is    *)
(* (fn called and pending, waiting for the timer, settled), the number of  *)
(* fn calls made, the outcomes of the calls that settled, the delays       *)
(* waited, and the value the promise settled with.                         *)
(***************************************************************************)
MaxRetries == 3

\* the default and the values fetchVideoFromUrl passes
BaseDelays == {1000, 1500, 2000, 3000}

Ok(v) == [ok |-> TRUE, v |-> v]

Fail(e) == [ok |-> FALSE, v |-> e]

FnOutcomes == {Ok("r1"), Fail("e1"), Fail("e2")}

\* Math.pow(2, i)
RECURSIVE Pow2(_)
Pow2(i) == IF i = 0 THEN 1 ELSE 2 * Pow2(i - 1)

\* a delay that does not grow
DelayConstant(baseDelay, i) == baseDelay

\* part_004:185  baseDelay * Math.pow(2, i)
Delay(baseDelay, i) == baseDelay * Pow2(i)

RetryState(retries, baseDelay, phase, value) ==
  [retries |-> retries, baseDelay |-> baseDelay, i |-> 0, phase |-> phase,
   calls |-> 0, attempts |-> <<>>, waits |-> <<>>, value |-> value]

RetryIdle == RetryState(0, 0, "idle", "")

\* part_004:180-181, 191  entering or re-entering the loop: fn is called if
\* i < retries, otherwise the throw behind the loop is reached
LoopTest(st) ==
  IF st.i < st.retries
  THEN [st EXCEPT !.phase = "call", !.calls = @ + 1]
  ELSE [st EXCEPT !.phase = "rejected", !.value = "All retry attempts failed"]

\* part_004:175-181  the call, up to the first await
NewRetry(retries, baseDelay) ==
  LoopTest(RetryState(retries, baseDelay, "loop", ""))

\* part_004:182-188  the promise fn returned has settled
AfterAttempt(st, o) ==
  LET a == [st EXCEPT !.attempts = Append(@, o)] IN
  IF o.ok THEN [a EXCEPT !.phase = "resolved", !.value = o.v]
  ELSE IF st.i = st.retries - 1
  THEN [a EXCEPT !.phase = "rejected", !.value = o.v]
  ELSE [a EXCEPT !.phase = "wait",
                 !.waits = Append(@, Delay(st.baseDelay, st.i))]

\* part_004:188-189, 180  the timer fires, i++ and the loop test
AfterTimer(st) == LoopTest([st EXCEPT !.i = @ + 1])

InitRetryIdle == bst = RetryIdle

InitRetry ==
  bst \in {NewRetry(r, b) : r \in 0..MaxRetries, b \in BaseDelays}

RetryAttempt(o) ==
  /\ bst.phase = "call"
  /\ bst' = AfterAttempt(bst, o)
  /\ UNCHANGED <<zvars, kvars, dvars, fvars>>

RetryTimer ==
  /\ bst.phase = "wait"
  /\ bst' = AfterTimer(bst)
  /\ UNCHANGED <<zvars, kvars, dvars, fvars>>

NextRetry ==
  \/ \E o \in FnOutcomes : RetryAttempt(o)
  \/ RetryTimer

(***************************************************************************)
(* fetchVideoFromUrl (src/unnamed/part_004:195-251)                        *)
(***************************************************************************)
\* part_004:19-26  MEDIA_PROXIES.length
NumProxies == 3

Undefined == <<"undefined">>

\* the download urls a resolver can answer with, as texts
ResolvedUrls == { <<"https://cdn/a.mp4">>, <<"https://cdn/b.mp4?k=1", "|", "2">> }

ResolverOutcomes == {Ok(u) : u \in ResolvedUrls} \cup {Fail(<<"HTTP_500">>)}

\* the proxied fetch: a media blob, a failed status, or an HTML page
ProxyOutcomes ==
  { Ok(<<"blob">>), Fail(<<"HTTP 403">>),
    Fail(<<"Received HTML response instead of media">>) }

\* a failure that leaves the url out
ManualDownloadBare(downloadUrl) == <<"MANUAL_DOWNLOAD_REQUIRED", "|">>

\* part_004:250  `MANUAL_DOWNLOAD_REQUIRED|${downloadUrl}`
ManualDownloadRequired(downloadUrl) ==
  <<"MANUAL_DOWNLOAD_REQUIRED", "|">> \o downloadUrl

ResolverConnectionError == <<"RESOLVER_CONNECTION_ERROR">>

Settle(state, value) == [state |-> state, value |-> value]

InitFetchIdle ==
  /\ fpc = "idle"
  /\ fst = RetryIdle
  /\ fproxy = 0
  /\ furl = Undefined
  /\ flog = <<>>
  /\ fout = Settle("idle", <<>>)

\* part_004:195-200  the call, up to the first await: Cobalt is being asked
FetchStart ==
  /\ fpc = "idle"
  /\ fpc' = "cobalt"
  /\ fst' = NewRetry(2, 2000)
  /\ fout' = Settle("pending", <<>>)
  /\ UNCHANGED <<fproxy, furl, flog>>
  /\ UNCHANGED <<zvars, kvars, dvars, bvars>>

\* the outcomes the function being retried can have
OutcomesAt(pc) == IF pc = "proxy" THEN ProxyOutcomes ELSE ResolverOutcomes

\* part_004:199-251  an attempt settles; when that settles the awaited
\* retryWithBackoff, fetchVideoFromUrl goes on to its next await or its end
FetchAttempt(o) ==
  /\ fpc \in {"cobalt", "alt", "proxy"}
  /\ fst.phase = "call"
  /\ o \in OutcomesAt(fpc)
  /\ flog' = Append(flog, [fn |-> fpc, proxy |-> fproxy, ok |-> o.ok, v |-> o.v])
  /\ LET st == AfterAttempt(fst, o) IN
     IF st.phase = "wait"
     THEN /\ fst' = st
          /\ UNCHANGED <<fpc, fproxy, furl, fout>>
     ELSE IF fpc \in {"cobalt", "alt"} /\ st.phase = "resolved"
     THEN \* part_004:212-220  downloadUrl is set, the first proxy is asked
          /\ furl' = st.value
          /\ fpc' = "proxy"
          /\ fproxy' = 1
          /\ fst' = NewRetry(2, 1500)
          /\ UNCHANGED fout
     ELSE IF fpc = "cobalt"
     THEN \* part_004:201-204  the fallback resolver is asked
          /\ fpc' = "alt"
          /\ fst' = NewRetry(2, 3000)
          /\ UNCHANGED <<fproxy, furl, fout>>
     ELSE IF fpc = "alt"
     THEN \* part_004:205-208
          /\ fpc' = "rejected"
          /\ fout' = Settle("rejected", ResolverConnectionError)
          /\ fst' = st
          /\ UNCHANGED <<fproxy, furl>>
     ELSE IF st.phase = "resolved"
     THEN \* part_004:238-242  the File is returned
          /\ fpc' = "resolved"
          /\ fout' = Settle("resolved", <<"File">> \o st.value)
          /\ fst' = st
          /\ UNCHANGED <<fproxy, furl>>
     ELSE IF fproxy < NumProxies
     THEN \* part_004:244-246, 216  the next proxy is asked
          /\ fproxy' = fproxy + 1
          /\ fst' = NewRetry(2, 1500)
          /\ UNCHANGED <<fpc, furl, fout>>
     ELSE \* part_004:249-250
          /\ fpc' = "rejected"
          /\ fout' = Settle("rejected", ManualDownloadRequired(furl))
          /\ fst' = st
          /\ UNCHANGED <<fproxy, furl>>
  /\ UNCHANGED <<zvars, kvars, dvars, bvars>>

FetchTimer ==
  /\ fst.phase = "wait"
  /\ fst' = AfterTimer(fst)
  /\ UNCHANGED <<fpc, fproxy, furl, flog, fout>>
  /\ UNCHANGED <<zvars, kvars, dvars, bvars>>

NextFetch ==
  \/ FetchStart
  \/ \E o \in ResolverOutcomes \cup ProxyOutcomes : FetchAttempt(o)
  \/ FetchTimer

NextTranscribe ==
  \/ \E url \in UrlInputs, c \in CookieOutcomes, s \in SpawnOutcomes :
       TranscribeRequest(url, c, s)
  \/ \E text \in StderrChunks : StderrData(text)
  \/ \E len \in ChunkSizes : StdoutData(len)
  \/ ChildError
  \/ ChildClose
  \/ \E o \in InferenceOutcomes : InferenceSettles(o)

NextResolve ==
  \/ \E d \in TimeSteps : Tick(d)
  \/ \E r \in Req, url \in QueryUrls, y \in BOOLEAN, c \in CookieOutcomes :
       ResolveRequest(r, url, y, c)
  \/ \E r \in Req, err \in BOOLEAN, out \in DirectStdouts, e \in DirectStderrs :
       DirectDone(r, err, out, e)
  \/ \E r \in Req, mErr \in MetaErrors, mOut \in MetaOutputs :
       MetaDone(r, mErr, mOut)

(***************************************************************************)
(* One resolution followed through: the request's url and what the tool    *)
(* hands the two exec callbacks are fixed when the run starts.             *)
(***************************************************************************)
MaxFormats == 2

RunUrls == { Str(<<"a">>), Str(<<" ", "a", " ">>), Str(<<"a", " ", "b">>) }

\* (err, stdout, stderr) of the direct-URL attempt
DirectResult(err, stdout, stderr) ==
  [err |-> err, stdout |-> stdout, stderr |-> stderr]

DirectResults ==
  { DirectResult(FALSE, out, e) :
      out \in {<<>>, <<" ">>, <<"v", " ">>, <<" ", "w">>}, e \in DirectStderrs }
  \cup { DirectResult(TRUE, <<"v", " ">>, e) : e \in DirectStderrs }

\* entries of formats: both codecs, video only, audio only, codecs not named
\* (null), both codecs without a url
FormatKinds ==
  { Fmt("v", "a", "f1"), Fmt("v", "a", "f2"), Fmt("v", "none", "f3"),
    Fmt("none", "a", "f4"), Fmt("", "", "f5"), Fmt("v", "a", "") }

FormatLists == UNION { [1..n -> FormatKinds] : n \in 0..MaxFormats }

RunDocs ==
  { Doc(u, fs, th, "Clip") :
      u \in {"", "top"}, fs \in FormatLists, th \in {"", "thumb"} }

\* (mErr, mOut) of the metadata attempt
MetaResult(mErr, mOut) == [mErr |-> mErr, mOut |-> mOut]

MetaResults ==
  { MetaResult("", d) : d \in RunDocs \cup {[kind |-> "garbage"]} }
  \cup { MetaResult("Command failed", [kind |-> "garbage"]) }

\* which of the two tool processes never exits
Hangs == {"none", "direct", "meta"}

Runs ==
  [url : RunUrls, direct : DirectResults, meta : MetaResults, hangs : Hangs]

NoRun ==
  [url |-> Str(<<>>), direct |-> DirectResult(FALSE, <<>>, ""),
   meta |-> MetaResult("", [kind |-> "garbage"]), hangs |-> "none"]

\* server.js:752 and 774  the options handed to exec; timeout 0 is
\* child_process's default, no timeout
ExecOptions(step) ==
  IF step = "direct"
  THEN [timeout |-> 30000, maxBuffer |-> 10 * 1024 * 1024]
  ELSE [timeout |-> 0, maxBuffer |-> 50 * 1024 * 1024]

OneRequest ==
  \E y \in BOOLEAN, c \in CookieOutcomes : ResolveRequest(1, run.url, y, c)

OneDirectDone ==
  /\ run.hangs # "direct"
  /\ DirectDone(1, run.direct.err, run.direct.stdout, run.direct.stderr)

OneMetaDone ==
  /\ run.hangs # "meta"
  /\ MetaDone(1, run.meta.mErr, run.meta.mOut)

\* exec's timer: the process that did not exit within options.timeout is
\* killed and the callback gets the error, with what the process had written
\* to its two streams
ExecTimeout(r) ==
  /\ rpc[r] \in {"direct", "meta"}
  /\ run.hangs = rpc[r]
  /\ ExecOptions(rpc[r]).timeout > 0
  /\ IF rpc[r] = "direct"
     THEN DirectDone(r, TRUE, run.direct.stdout, run.direct.stderr)
     ELSE MetaDone(r, "Command failed", [kind |-> "garbage"])

NextResolveOne ==
  \/ OneRequest
  \/ OneDirectDone
  \/ OneMetaDone
  \/ ExecTimeout(1)

InitCookiesIdle ==
  /\ cpc = "idle"
  /\ csrc = RootTxtOnly(Text(<<>>))
  /\ rawCookies = << >>
  /\ cookieFile = << >>
  /\ InitCred
  /\ InitClientIdle
  /\ InitDownload
  /\ InitRetryIdle
  /\ InitFetchIdle

Init == InitTranscribe /\ InitResolve /\ run = NoRun /\ InitCookiesIdle

InitResolveOne ==
  InitTranscribe /\ InitResolve /\ run \in Runs /\ InitCookiesIdle

InitCookieTexts ==
  /\ InitTranscribe /\ InitResolve /\ run = NoRun
  /\ cpc = "idle"
  /\ csrc \in {RootTxtOnly(b) : b \in CookieBlobs}
  /\ rawCookies = << >>
  /\ cookieFile = << >>
  /\ InitCred
  /\ InitClientIdle
  /\ InitDownload
  /\ InitRetryIdle
  /\ InitFetchIdle

InitCookieSources ==
  /\ InitTranscribe /\ InitResolve /\ run = NoRun
  /\ cpc = "idle"
  /\ csrc \in Sources
  /\ rawCookies = << >>
  /\ cookieFile = << >>
  /\ InitCred
  /\ InitClientIdle
  /\ InitDownload
  /\ InitRetryIdle
  /\ InitFetchIdle

\* getCookiesPath over cookie texts, found in ../cookies.txt
SpecCookies == InitCookieTexts /\ [][NextCookies]_vars

\* getCookiesPath over the states of its sources
SpecCookieSources == InitCookieSources /\ [][NextCookies]_vars

\* concurrent requests that write and use credential files
SpecCred == Init /\ [][NextCred]_vars

InitClientRun ==
  /\ InitTranscribe /\ InitResolve /\ run = NoRun
  /\ cpc = "idle" /\ csrc = RootTxtOnly(Text(<<>>))
  /\ rawCookies = << >> /\ cookieFile = << >>
  /\ InitCred
  /\ InitClient
  /\ InitDownload
  /\ InitRetryIdle
  /\ InitFetchIdle

InitRetryRun ==
  /\ InitTranscribe /\ InitResolve /\ run = NoRun
  /\ cpc = "idle" /\ csrc = RootTxtOnly(Text(<<>>))
  /\ rawCookies = << >> /\ cookieFile = << >>
  /\ InitCred
  /\ InitClientIdle
  /\ InitDownload
  /\ InitRetry
  /\ InitFetchIdle

\* one retryWithBackoff call
SpecRetry == InitRetryRun /\ [][NextRetry]_vars

\* one fetchVideoFromUrl call
SpecFetch == Init /\ [][NextFetch]_vars

\* one /api/download request
SpecDownload == Init /\ [][NextDownload]_vars

\* transcribeUrl reading a response
SpecClient == InitClientRun /\ [][NextClient]_vars

\* one /api/resolve request
SpecResolveOne == InitResolveOne /\ [][NextResolveOne]_vars

\* the same, with the scheduling of the event loop: a callback whose process
\* has exited is called, and a timer that was set fires
FairResolveOne ==
  /\ SpecResolveOne
  /\ WF_vars(OneDirectDone)
  /\ WF_vars(OneMetaDone)
  /\ WF_vars(ExecTimeout(1))

\* one /api/transcribe request
SpecTranscribe == Init /\ [][NextTranscribe]_vars

\* the same, with the scheduling of the event loop: a pending 'error' or
\* 'close' event is delivered and a pending inference call settles
FairTranscribe ==
  /\ SpecTranscribe
  /\ WF_vars(ChildError)
  /\ WF_vars(ChildClose)
  /\ WF_vars(\E o \in InferenceOutcomes : InferenceSettles(o))

\* concurrent /api/resolve requests
SpecResolve == Init /\ [][NextResolve]_vars

(***************************************************************************)
(* Properties of POST /api/transcribe                                      *)
(***************************************************************************)
IsTerminal(line) == line.type \in {"result", "error"}

Terminals(w) == {i \in DOMAIN w : IsTerminal(w[i])}

CountType(w, ty) == Cardinality({i \in DOMAIN w : w[i].type = ty})

Validated == tpc \in {"fetching", "inference", "done"}

TerminalWritten == Terminals(res.writes) # {} /\ res.ends # <<>>

\* C1: the lines written to the response of one request are progress/status
\* lines followed by exactly one terminal line (result or error), after which
\* the response is ended, once: at most one terminal line is ever written,
\* nothing is written after it, and the response is ended right after it.
C1_OneTerminalThenClosed ==
  LET w == res.writes IN
  /\ Cardinality(Terminals(w)) <= 1
  /\ \A i \in Terminals(w) : i = Len(w)
  /\ Len(res.ends) <= 1
  /\ \A k \in DOMAIN res.ends :
       res.ends[k] = Len(w) /\ Len(w) > 0 /\ IsTerminal(w[Len(w)])
  /\ Terminals(w) # {} => res.ends # <<>>
  /\ tpc = "done" => TerminalWritten

\* C2: once the terminal line is written and the response ended, no handler of
\* the request writes another line or ends the response again.
C2_NothingAfterTerminal == [][res.ends # <<>> => res' = res]_vars

\* C3: every validated request eventually has its terminal line written and
\* its response ended, given that the subprocess closes (or fails to start)
\* and the inference call settles.
C3_EventuallyTerminal == Validated ~> TerminalWritten

\* C3 witness: a request that went through fetch and inference and was answered
C3_AnsweredAfterInference ==
  /\ tpc = "done" /\ child = "closed" /\ inferenceCalls = 1
  /\ TerminalWritten

\* C4: the status line is written exactly once on a run that captured at
\* least one byte and never on a run that captured none; it comes after every
\* progress line and before the terminal line, so the lines of a run that
\* reaches inference are progress* status (result|error).
C4_StatusOnceAfterProgress ==
  LET w == res.writes IN
  /\ CountType(w, "status") <= 1
  /\ child # "closed" => CountType(w, "status") = 0
  /\ child = "closed" => (CountType(w, "status") = 1 <=> totalLength > 0)
  /\ \A i, j \in DOMAIN w :
       (i < j /\ w[i].type = "status") => w[j].type # "progress"
  /\ \A i, j \in DOMAIN w :
       (i < j /\ IsTerminal(w[i])) => w[j].type # "status"
  /\ (tpc = "done" /\ totalLength > 0) =>
       /\ Len(w) >= 2
       /\ IsTerminal(w[Len(w)])
       /\ w[Len(w) - 1].type = "status"
       /\ \A i \in 1..(Len(w) - 2) : w[i].type = "progress"

\* C4 witness: a finished run with bytes, a progress line and the status line
C4_RunWithProgressAndStatus ==
  /\ tpc = "done" /\ totalLength > 0
  /\ CountType(res.writes, "progress") >= 1
  /\ CountType(res.writes, "status") = 1

\* C5: when the fetch ends with zero bytes the stream holds a single error
\* line and no progress, status or result line precedes it, whatever the tool
\* printed on its diagnostic stream.
C5_ZeroBytesOnlyError ==
  (child = "closed" /\ totalLength = 0) =>
     /\ Len(Delivered(res)) = 1
     /\ Delivered(res)[1].type = "error"

\* C6: every error line has the shape {type: "error", data: {message: m}}
\* with m a non-empty string, on every failure path.
C6_ErrorLinesCarryMessage ==
  \A i \in DOMAIN res.writes :
    res.writes[i].type = "error" =>
      /\ "message" \in DOMAIN res.writes[i].data
      /\ res.writes[i].data.message # ""

\* C7: a request whose url is missing or empty is answered with status 400 and
\* a JSON error body and nothing else: the NDJSON content type is not set, no
\* line is written, no credential file is written, no subprocess is spawned.
\* The only other requests answered that way are those whose url is a falsy
\* value that is not a string (0, false, null).
C7_MissingUrlIs400 ==
  /\ (tpc # "idle" /\ turl \in {NoUrl, ""}) =>
       /\ tpc = "rejected"
       /\ res.status = 400
       /\ res.json = <<[error |-> "Missing URL"]>>
       /\ res.contentType = "application/json"
       /\ res.writes = <<>> /\ res.ends = <<>>
       /\ tempFiles = 0 /\ spawnCount = 0 /\ child = "none"
  /\ tpc = "rejected" => turl \in {NoUrl, "", FalsyNonStringUrl}

\* C7 witness: a request with an empty url has been answered
C7_EmptyUrlRejected == tpc = "rejected" /\ turl = ""

\* the largest single chunk: a buffer that stops growing once the ceiling is
\* crossed never exceeds CEILING + MaxChunkLen
MaxChunkLen == CEILING

\* C8: once the cumulative stdout length exceeds the ceiling the subprocess is
\* terminated and the buffer stays bounded: it holds no more than the ceiling
\* plus the chunk that crossed it, whatever the producer goes on to deliver.
C8_BufferBounded ==
  /\ totalLength > CEILING => killCalls >= 1
  /\ totalLength <= CEILING + MaxChunkLen

(***************************************************************************)
(* Properties of GET /api/resolve                                          *)
(***************************************************************************)
\* request r takes its first step and gets as far as the cache check
ReachesCacheCheck(r) ==
  /\ rpc[r] = "idle"
  /\ \/ rpc'[r] = "direct"
     \/ /\ rpc'[r] = "done"
        /\ responses'[r][1].status \notin {400, 503}
        /\ responses'[r][1].body # [framework |-> "TypeError"]

ServedFromCache(r) ==
  /\ rpc'[r] = "done"
  /\ rurl'[r] \in DOMAIN metadataCache
  /\ execCalls'[r] = 0
  /\ responses'[r] = <<Reply(200, metadataCache[rurl'[r]].data)>>

\* C9 (as claimed): of two calls for the same URL made within the TTL window
\* at most one invokes the tool, the later one being answered from the cache;
\* a call made after TTL expiry is not answered from the cache.
C9_AtMostOneInvokes ==
  [][\A r \in Req : ReachesCacheCheck(r) =>
       /\ (/\ now < CACHE_TTL
           /\ \E q \in Req \ {r} : rurl[q] = rurl'[r] /\ execCalls[q] > 0)
          => ServedFromCache(r)
       /\ (/\ rurl'[r] \in DOMAIN metadataCache
           /\ now - metadataCache[rurl'[r]].timestamp > CACHE_TTL)
          => ~ServedFromCache(r)]_vars

\* C9 (amended): a call whose cache check finds an entry for its trimmed URL
\* stored less than TTL ago is answered with that entry's body and runs no
\* process; a call that finds no entry, or one stored more than TTL ago, is
\* not answered from the cache and goes on to resolution.
C9_FreshEntryServed ==
  [][\A r \in Req : ReachesCacheCheck(r) =>
       /\ (/\ rurl'[r] \in DOMAIN metadataCache
           /\ now - metadataCache[rurl'[r]].timestamp < CACHE_TTL)
          => ServedFromCache(r)
       /\ (\/ rurl'[r] \notin DOMAIN metadataCache
           \/ now - metadataCache[rurl'[r]].timestamp > CACHE_TTL)
          => /\ responses'[r] \in {<<>>, <<Reply(500, [framework |-> "Error"])>>}
             /\ rpc'[r] = "direct" => execCalls'[r] = 1]_vars

\* C9 witness: one call resolved the URL with the tool and a later call for
\* the same URL, made after the clock had moved, was answered from the cache
\* with the same body and ran no process
C9_LaterCallServedFromCache ==
  \E q, r \in Req :
    /\ q # r /\ rurl[q] = rurl[r]
    /\ rpc[q] = "done" /\ execCalls[q] > 0 /\ responses[q][1].status = 200
    /\ rpc[r] = "done" /\ execCalls[r] = 0 /\ responses[r][1].status = 200
    /\ responses[r][1].body = responses[q][1].body
    /\ now > 0

CompleteValue(d, key) ==
  /\ {"type", "can_preview", "preview_url", "download_url", "title"}
       \subseteq DOMAIN d
  /\ d.download_url = DownloadUrl(key)

\* C10: when /api/resolve requests for the same URL overlap, every request
\* receives exactly one response, and the cache entry of a key is at every
\* moment absent or exactly the complete value one of the resolutions of that
\* key produced and answered with.
C10_OneResponseWholeEntry ==
  /\ \A r \in Req :
       /\ Len(responses[r]) <= 1
       /\ rpc[r] = "done" <=> Len(responses[r]) = 1
  /\ \A key \in DOMAIN metadataCache :
       /\ CompleteValue(metadataCache[key].data, key)
       /\ \E r \in Req :
            /\ rurl[r] = key /\ execCalls[r] > 0 /\ rpc[r] = "done"
            /\ responses[r] = <<Reply(200, metadataCache[key].data)>>

\* C10 witness: two requests for one URL both missed the cache before either
\* inserted (no time has passed, so neither entry could have expired), both
\* ran the tool and both were answered
C10_OverlappingResolutions ==
  \E q, r \in Req :
    /\ q # r /\ rurl[q] = rurl[r] /\ now = 0
    /\ rpc[q] = "done" /\ execCalls[q] > 0 /\ responses[q][1].status = 200
    /\ rpc[r] = "done" /\ execCalls[r] > 0 /\ responses[r][1].status = 200
    /\ responses[q][1].body # responses[r][1].body

\* C11: a cache entry counts as expired exactly when now - timestamp exceeds
\* the TTL of 10 minutes: a request whose cache check finds an entry of age
\* at most TTL (age exactly TTL included) is answered from the cache, and one
\* that finds an entry older than TTL is not.
C11_ExpiredOnlyPastTtl ==
  [][\A r \in Req :
       (ReachesCacheCheck(r) /\ rurl'[r] \in DOMAIN metadataCache) =>
         /\ now - metadataCache[rurl'[r]].timestamp <= CACHE_TTL
            => ServedFromCache(r)
         /\ now - metadataCache[rurl'[r]].timestamp > CACHE_TTL
            => ~ServedFromCache(r)]_vars

(***************************************************************************)
(* Properties of one resolution followed through                           *)
(***************************************************************************)
\* t is s without its leading and trailing white space
IsTrimOf(t, s) ==
  \E i, j \in DOMAIN s :
    /\ i <= j /\ s[i] # " " /\ s[j] # " "
    /\ \A k \in DOMAIN s : (k < i \/ k > j) => s[k] = " "
    /\ t = SubSeq(s, i, j)

\* the callback of the direct-URL attempt has run
DirectReturned ==
  /\ rpc[1] \in {"meta", "done"}
  /\ execCalls[1] >= 1

\* the direct-URL attempt exited with 0 and printed a URL
DirectSucceeded ==
  /\ DirectReturned
  /\ run.hangs # "direct"
  /\ ~run.direct.err
  /\ \E i \in DOMAIN run.direct.stdout : run.direct.stdout[i] # " "

\* C12: when the direct-URL attempt succeeds (exit 0, stdout holding a URL)
\* the request is answered 200 with can_preview true, preview_url the stdout
\* without surrounding white space and download_url the download route
\* followed by the percent-encoded trimmed input url, and the cache holds that
\* same value under the trimmed input url.
C12_DirectSuccessAnswer ==
  DirectSucceeded =>
    /\ Len(responses[1]) = 1
    /\ responses[1][1].status = 200
    /\ responses[1][1].body.can_preview = TRUE
    /\ IsTrimOf(responses[1][1].body.preview_url, run.direct.stdout)
    /\ \E key \in DOMAIN metadataCache :
         /\ IsTrimOf(key, run.url.text)
         /\ responses[1][1].body.download_url =
              <<"/api/download?url=">> \o
                [i \in DOMAIN key |-> IF key[i] = " " THEN "%20" ELSE key[i]]
         /\ metadataCache[key].data = responses[1][1].body

\* C12 witness: a url with a space inside was resolved by a direct attempt
\* whose output began with a space
C12_PaddedUrlResolvedDirectly ==
  /\ DirectSucceeded
  /\ run.url.text = <<"a", " ", "b">>
  /\ run.direct.stdout = <<" ", "w">>
  /\ responses[1][1].body.preview_url = <<"w">>

\* the metadata attempt ran, exited cleanly and printed a JSON document
MetaSucceeded ==
  /\ rpc[1] = "done"
  /\ execCalls[1] = 2
  /\ run.hangs # "meta"
  /\ run.meta.mErr = ""
  /\ run.meta.mOut.kind = "doc"

\* positions of the formats that have both a video and an audio codec: yt-dlp
\* reports a missing stream as the codec "none"
CombinedFormats(doc) ==
  {i \in DOMAIN doc.formats :
     doc.formats[i].vcodec # "none" /\ doc.formats[i].acodec # "none"}

LastOf(S) == CHOOSE i \in S : \A j \in S : j <= i

\* the URL the first two cases of the selection supply, "" when neither does
PlayableUrl(doc) ==
  IF doc.url # "" THEN doc.url
  ELSE IF CombinedFormats(doc) # {}
  THEN doc.formats[LastOf(CombinedFormats(doc))].url
  ELSE ""

\* C13: in the metadata fallback preview_url is the document's top-level url
\* if present, otherwise the url of the last format that has both codecs,
\* otherwise the thumbnail, otherwise null; can_preview is true exactly when
\* one of the first two cases supplied the URL.
C13_PreviewSelection ==
  MetaSucceeded =>
    LET doc  == run.meta.mOut
        body == responses[1][1].body
    IN /\ responses[1][1].status = 200
       /\ body.can_preview = (PlayableUrl(doc) # "")
       /\ PlayableUrl(doc) # "" => body.preview_url = PlayableUrl(doc)
       /\ (PlayableUrl(doc) = "" /\ doc.thumbnail # "")
            => body.preview_url = doc.thumbnail
       /\ (PlayableUrl(doc) = "" /\ doc.thumbnail = "")
            => body.preview_url = "null"

\* C13 witness: a document without top-level url whose formats hold two
\* combined entries was answered with the url of the second
C13_LastCombinedChosen ==
  /\ MetaSucceeded
  /\ run.meta.mOut.url = ""
  /\ run.meta.mOut.formats = <<Fmt("v", "a", "f1"), Fmt("v", "a", "f2")>>
  /\ responses[1][1].body.preview_url = "f2"
  /\ responses[1][1].body.can_preview = TRUE

\* the metadata attempt returned with a process error or with output that
\* does not parse
ResolutionFailed ==
  /\ rpc[1] = "done"
  /\ execCalls[1] = 2
  /\ ~MetaSucceeded

\* C14: whenever resolution fails (the metadata process errors or its output
\* is unparseable) the response is status 500 and its body carries an error
\* field and a details field holding the tool's diagnostic text.
C14_FailureCarriesDetails ==
  ResolutionFailed =>
    /\ Len(responses[1]) = 1
    /\ responses[1][1].status = 500
    /\ {"error", "details"} \subseteq DOMAIN responses[1][1].body
    /\ responses[1][1].body.details # ""

\* C15: both tool invocations of /api/resolve, the direct-URL attempt and the
\* metadata fallback, carry a timeout, so a request that started a tool
\* process is eventually answered even when the process never exits.
C15_HangingToolStillAnswered ==
  (rpc[1] \in {"direct", "meta"}) ~> (rpc[1] = "done")

(***************************************************************************)
(* Launch failures                                                         *)
(***************************************************************************)
\* the response of /api/transcribe reports a 503-class condition: by its
\* status, or by a code carried in an error line
Reports503(r) ==
  \/ r.status = 503
  \/ \E i \in DOMAIN r.writes :
       /\ r.writes[i].type = "error"
       /\ "status" \in DOMAIN r.writes[i].data
       /\ r.writes[i].data.status = 503

\* C16: on every endpoint that uses the tool a failure to launch it is
\* reported as a 503-class condition, distinguishable from a resolution
\* failure and from a fetch failure; here for /api/transcribe, once the
\* 'error' event of the failed spawn has been handled.
C16_LaunchFailureIs503 == child = "errored" => Reports503(res)

(***************************************************************************)
(* Properties of getCookiesPath                                            *)
(***************************************************************************)
\* C17: for a well-formed flat file (optional comment lines, cookie lines of
\* seven tab-separated fields, trailing newline) the file written is the
\* input itself, with the canonical header line put in front when the input
\* does not begin with it: no cookie line is dropped, merged or altered.
C17_WellFormedKeptVerbatim ==
  (cpc = "path" /\ csrc.content.text \in WellFormedTexts) =>
    cookieFile = IF StartsWith(csrc.content.text, HeaderText)
                 THEN csrc.content.text
                 ELSE HeaderText \o <<NL>> \o csrc.content.text

\* the input is a JSON array of cookie objects
IsCookieArray(blob) ==
  /\ Len(blob.blocks) = 1
  /\ blob.blocks[1].kind = "array"
  /\ blob.blocks[1].items \in CookieArrays

\* the lines of a file: the texts ended by its newlines
FileLines(file) == Split(SubSeq(file, 1, Len(file) - 1), NL)

\* the file is the header line followed by one line of seven tab-separated
\* fields per cookie, in order, whose first field is first(cookie)
OneLinePerCookie(file, cookies, first(_)) ==
  /\ file # <<>> /\ file[Len(file)] = NL
  /\ Len(FileLines(file)) = Len(cookies) + 1
  /\ FileLines(file)[1] = HeaderText
  /\ \A i \in DOMAIN cookies :
       /\ Len(Split(FileLines(file)[i + 1], TAB)) = 7
       /\ Split(FileLines(file)[i + 1], TAB)[1] = first(cookies[i])

HttpOnlyPrefix(c) == IF c.httpOnly THEN <<"#", "HttpOnly_">> ELSE <<>>

\* first field as claimed: dotted whenever not httpOnly and not already dotted
FirstFieldClaimed(c) ==
  HttpOnlyPrefix(c)
  \o (IF ~c.httpOnly /\ ~StartsWith(c.domain, <<".">>)
      THEN <<".">> \o c.domain ELSE c.domain)

\* first field as amended: the domain must also be non-empty and hold a dot
FirstFieldAmended(c) ==
  HttpOnlyPrefix(c)
  \o (IF /\ ~c.httpOnly /\ ~StartsWith(c.domain, <<".">>)
         /\ c.domain # <<>> /\ \E i \in DOMAIN c.domain : c.domain[i] = "."
      THEN <<".">> \o c.domain ELSE c.domain)

\* C18 (as claimed): for a JSON array of cookie objects the output holds one
\* tab-separated seven-field line per object, in input order; a line bears
\* the #HttpOnly_ prefix iff the cookie's httpOnly is true, and its domain has
\* a '.' put in front iff the cookie is not httpOnly and the domain is not
\* already dotted.
C18_DotUnlessHttpOnlyOrDotted ==
  (cpc = "path" /\ IsCookieArray(csrc.content)) =>
    OneLinePerCookie(cookieFile, csrc.content.blocks[1].items, FirstFieldClaimed)

\* C18 (amended): the same, except that the '.' is put in front iff the cookie
\* is not httpOnly and its domain is non-empty, contains a '.' and is not
\* already dotted: a single-label host such as localhost is left as it is.
C18_DotOnlyForDottedNames ==
  (cpc = "path" /\ IsCookieArray(csrc.content)) =>
    OneLinePerCookie(cookieFile, csrc.content.blocks[1].items, FirstFieldAmended)

\* C18 witness: an array of a plain cookie for d.c and an httpOnly cookie for
\* d.c was converted: the first line got the dot, the second the prefix
C18_ArrayConverted ==
  /\ cpc = "path"
  /\ IsCookieArray(csrc.content)
  /\ Len(csrc.content.blocks[1].items) = 2
  /\ csrc.content.blocks[1].items[1] = Cookie(<<"d", ".", "c">>, FALSE, FALSE, 0, <<"v">>)
  /\ csrc.content.blocks[1].items[2] = Cookie(<<"d", ".", "c">>, TRUE, TRUE, 175, <<"v">>)
  /\ StartsWith(FileLines(cookieFile)[2], <<".", "d", ".", "c", TAB>>)
  /\ StartsWith(FileLines(cookieFile)[3], <<"#", "HttpOnly_", "d", ".", "c", TAB>>)

\* C19: whatever the input and whichever branch handled it, every line of a
\* file getCookiesPath wrote is a comment line (it starts with #) or a cookie
\* line of exactly seven tab-separated fields, and the file ends with a
\* newline.
C19_EveryLineConforms ==
  cpc = "path" =>
    /\ cookieFile # <<>> /\ cookieFile[Len(cookieFile)] = NL
    /\ \A i \in DOMAIN FileLines(cookieFile) :
         \/ StartsWith(FileLines(cookieFile)[i], <<"#">>)
         \/ Len(Split(FileLines(cookieFile)[i], TAB)) = 7

\* C20: getCookiesPath never raises to its caller: called with no url or with
\* a url string, whatever the state of its sources (a source file that exists
\* but cannot be read, malformed JSON, a temp directory that cannot be
\* written), it returns a path or null.
C20_ReturnsPathOrNull ==
  csrc.site # "nonstring" => cpc \in {"idle", "path", "null"}

(***************************************************************************)
(* Properties of the credential files                                      *)
(***************************************************************************)
\* a request that uses its credential file: its write is under way, or a
\* subprocess of it has yet to read the file, or (after the first read) the
\* metadata subprocess that reads it again may still be started
InFlight(r) == jpc[r] \in {"writing", "spawned", "read", "fallback"}

\* C21: each request that needs credentials writes a temp file of its own: no
\* two requests in flight write or read the same credential file path, so
\* the file of a request is never overwritten while a subprocess of that
\* request may still read it: every read finds a whole file, and the reads of
\* one request find the same text.
C21_OwnCredentialFile ==
  /\ \A q, r \in Req :
       (q # r /\ InFlight(q) /\ InFlight(r)) => jpath[q] # jpath[r]
  /\ \A r \in Req : \A i, j \in DOMAIN jread[r] :
       /\ jread[r][i].size = "whole"
       /\ jread[r][i] = jread[r][j]

(***************************************************************************)
(* Properties of transcribeUrl                                             *)
(***************************************************************************)
\* the complete lines of a text: those ended by a newline
CompleteLines(text) ==
  SubSeq(Split(text, NL), 1, Len(Split(text, NL)) - 1)

\* what reading the whole text as one sequence of complete lines does
WholeRun(text) ==
  ProcessLines(LoopState(<<>>, NoResult, NotThrown), CompleteLines(text))

\* the stream was read and the promise has settled
Settled ==
  /\ kresp = OkResponse("stream")
  /\ kout.state \in {"resolved", "rejected"}

\* C22: transcribeUrl is independent of chunking: however the stream is cut
\* into reads it makes the onProgress calls, in order, that the complete
\* lines of the whole stream give, and settles the same way.
C22_ChunkingIndependent ==
  /\ kout.state = "pending" =>
       /\ Len(kcalls) <= Len(WholeRun(kstream).calls)
       /\ kcalls = SubSeq(WholeRun(kstream).calls, 1, Len(kcalls))
  /\ Settled =>
       /\ kcalls = WholeRun(kstream).calls
       /\ kout = IF WholeRun(kstream).thrown # NotThrown
                 THEN Rejected(WholeRun(kstream).thrown)
                 ELSE IF WholeRun(kstream).result = NoResult
                 THEN Rejected("Stream ended without a result")
                 ELSE Resolved(WholeRun(kstream).result)

\* C22 witness: a stream of two progress lines and a result was read in
\* pieces that cut a line in two, and resolved after both calls
C22_SplitLineCompleted ==
  /\ kstream = <<"{progress:", "10}", NL, "{progress:", "50}", NL>>
  /\ kpos = 4 /\ buffer = <<"{progress:">>
  /\ kcalls = <<ProgressCall(10, "Downloading media...")>>

IsErrorLine(line) ==
  \E m \in ClientMessages : m.text = line /\ m.msg.type = "error"

\* the onProgress calls of a sequence of lines: one for each progress or
\* status line when the callback was passed, none otherwise
RECURSIVE CallsOf(_)
CallsOf(lines) ==
  IF lines = <<>> \/ ~onProgress THEN <<>>
  ELSE (IF \E m \in ClientMessages :
             m.text = Head(lines) /\ m.msg.type = "progress"
        THEN <<ProgressCall(
                 (CHOOSE m \in ClientMessages : m.text = Head(lines)).msg.value,
                 "Downloading media...")>>
        ELSE IF \E m \in ClientMessages :
                  m.text = Head(lines) /\ m.msg.type = "status"
        THEN <<ProgressCall(100, "Processing audio with Gemini...")>>
        ELSE <<>>)
       \o CallsOf(Tail(lines))

FirstErrorLine(lines) ==
  CHOOSE i \in DOMAIN lines :
    IsErrorLine(lines[i]) /\ \A j \in 1..(i - 1) : ~IsErrorLine(lines[j])

\* the message an error line carries
CarriedMessage(line) ==
  LET d == (CHOOSE m \in ClientMessages : m.text = line).msg.data
  IN IF d.message # "" THEN d.message ELSE d.error

\* C23: a line that does not parse is skipped and the lines after it are
\* still processed, whereas a line of type error aborts the read: the promise
\* rejects with the message that line carries and no later line is
\* processed.
C23_SkipUnparseableAbortOnError ==
  Settled =>
    LET lines == CompleteLines(kstream)
    IN IF \E i \in DOMAIN lines : IsErrorLine(lines[i])
       THEN /\ kout.state = "rejected"
            /\ kout.value.message = CarriedMessage(lines[FirstErrorLine(lines)])
            /\ kcalls = CallsOf(SubSeq(lines, 1, FirstErrorLine(lines) - 1))
       ELSE /\ kcalls = CallsOf(lines)
            /\ kout.state = "resolved" <=>
                 \E i \in DOMAIN lines :
                   lines[i] \in {<<"{result:", "T}">>, <<"{result:", "U}">>}

\* C23 witness: a line that is not JSON came first, the progress line after it
\* was still delivered, and the error line that followed rejected the promise
\* before the result line behind it was looked at
C23_SkippedThenAborted ==
  /\ kstream = <<"{progress:", "1", NL, "{error:", "message}", NL,
                 "{error:", "message}">>
  /\ kcalls = <<>>
  /\ kout.state = "rejected"
  /\ kout.value.message = "Failed to start downloader process"
  /\ finalResult = NoResult

(***************************************************************************)
(* Properties of POST /api/transcribe: inference result, progress, ceiling *)
(***************************************************************************)
ResultFields == {"title", "originalText", "translatedText"}

\* C24: a result line is written only when the inference response parses to
\* an object holding all of title, originalText and translatedText; a
\* response that lacks one of them gives an error line instead.
C24_ResultHasAllFields ==
  \A i \in DOMAIN res.writes :
    res.writes[i].type = "result" =>
      ResultFields \subseteq DOMAIN res.writes[i].data

\* the percentages of the progress tokens in a text of the diagnostic stream,
\* in order; a token cut in two by a chunk boundary is a token of the stream
RECURSIVE Tokens(_)
Tokens(text) ==
  IF text = <<>> THEN <<>>
  ELSE IF Head(text).kind = "pct"
  THEN <<Head(text).v>> \o Tokens(Tail(text))
  ELSE IF /\ Head(text).kind = "head"
          /\ Len(text) >= 2
          /\ text[2] = PctTail(Head(text).v)
  THEN <<Head(text).v>> \o Tokens(Tail(Tail(text)))
  ELSE Tokens(Tail(text))

\* the values of the progress lines of a sequence of lines, in order
RECURSIVE ProgressValues(_)
ProgressValues(w) ==
  IF w = <<>> THEN <<>>
  ELSE (IF Head(w).type = "progress" THEN <<Head(w).value>> ELSE <<>>)
       \o ProgressValues(Tail(w))

\* C28: every progress token that arrived on the diagnostic stream has given
\* exactly one progress line with its percentage, the lines being in the order
\* of the tokens, however the stream was cut into data chunks.
C28_OneEventPerToken ==
  ProgressValues(res.writes) = Tokens(stderrData)

\* C29: once the cumulative length has exceeded the ceiling the buffer is
\* ended: the chunk that crossed the ceiling is the last one in the buffer
\* handed to inference, and termination was requested once.
C29_EndedAtCeiling ==
  /\ \A i \in 1..(Len(chunks) - 1) :
       BufferLength(SubSeq(chunks, 1, i)) <= CEILING
  /\ killCalls <= 1
  /\ totalLength > CEILING => killCalls = 1

StartFailed ==
  \E i \in DOMAIN res.writes :
    res.writes[i] = ErrorLine([message |-> "Failed to start downloader process"])

FetchErrorLine ==
  ErrorLine([error |-> "Failed to fetch media bytes.", details |-> stderrData])

\* C30: inference is called at most once in a request, only after the
\* subprocess has exited and only with a non-empty buffer; a fetch that exits
\* with zero bytes makes the request fail with the fetch error carrying the
\* diagnostic text accumulated, and inference is not called.
C30_InferenceOnceAfterExit ==
  /\ inferenceCalls <= 1
  /\ inferenceCalls = 1 => child = "closed" /\ BufferLength(chunks) > 0
  /\ (tpc = "inference") => inferenceCalls = 1
  /\ (child = "closed" /\ BufferLength(chunks) > 0) => inferenceCalls = 1
  /\ (child = "closed" /\ BufferLength(chunks) = 0) =>
       /\ inferenceCalls = 0
       /\ tpc = "done"
       /\ res.writes[Len(res.writes)] = FetchErrorLine
       /\ ~StartFailed =>
            /\ Delivered(res)[Len(Delivered(res))] = FetchErrorLine
            /\ CountType(res.writes, "status") = 0
            /\ CountType(res.writes, "result") = 0

\* C30 witness: a subprocess that printed diagnostics and exited without a
\* byte: the request has failed with the fetch error, inference uncalled
C30_ZeroBytesFetchError ==
  /\ child = "closed" /\ chunks = <<>> /\ stderrData # <<>>
  /\ ~StartFailed
  /\ inferenceCalls = 0
  /\ Delivered(res)[Len(Delivered(res))] = FetchErrorLine

(***************************************************************************)
(* Properties of GET /api/download                                         *)
(***************************************************************************)
\* the download failed: the subprocess could not be started, or it exited
\* without having produced a byte
DownloadFailed ==
  \/ dchild = "closedfailed"
  \/ dchild = "closed" /\ dres.body = 0

\* C25: a failed download is answered with an error status and a JSON error
\* body, never with a 200 video/mp4 response whose body is empty; and the
\* response of every request is ended exactly once.
C25_FailedDownloadIsJsonError ==
  /\ DownloadFailed =>
       /\ dres.status >= 400
       /\ dres.contentType = "application/json"
       /\ dres.json # <<>>
  /\ dpc \in {"rejected", "threw", "done"} => dres.ends = 1

(***************************************************************************)
(* Properties of fetchVideoFromUrl and retryWithBackoff                    *)
(***************************************************************************)
LogOf(fn) == {j \in DOMAIN flog : flog[j].fn = fn}

Resolvers == {"cobalt", "alt"}

ResolvedAt == {j \in DOMAIN flog : flog[j].fn \in Resolvers /\ flog[j].ok}

IsManualFailure ==
  /\ fout.state = "rejected"
  /\ Len(fout.value) >= 2
  /\ fout.value[1] = "MANUAL_DOWNLOAD_REQUIRED" /\ fout.value[2] = "|"

IsResolverFailure ==
  fout = Settle("rejected", <<"RESOLVER_CONNECTION_ERROR">>)

\* C26: fetchVideoFromUrl fails with MANUAL_DOWNLOAD_REQUIRED|<url> only when
\* a resolver produced a download url and every proxy download failed, <url>
\* being that download url; it fails with RESOLVER_CONNECTION_ERROR only when
\* neither Cobalt nor, after it, the alternative API produced a url; and no
\* proxy download is attempted before a url has been resolved.
C26_FailureTellsWhatFailed ==
  /\ fout.state = "rejected" => IsManualFailure \/ IsResolverFailure
  /\ IsManualFailure =>
       /\ Cardinality(ResolvedAt) = 1
       /\ \A j \in ResolvedAt :
            SubSeq(fout.value, 3, Len(fout.value)) = flog[j].v
       /\ \A j \in LogOf("proxy") : ~flog[j].ok
       /\ \A p \in 1..NumProxies :
            \E j \in LogOf("proxy") : flog[j].proxy = p
  /\ IsResolverFailure =>
       /\ ResolvedAt = {}
       /\ LogOf("cobalt") # {} /\ LogOf("alt") # {}
       /\ \A i \in LogOf("cobalt"), j \in LogOf("alt") : i < j
       /\ LogOf("proxy") = {}
  /\ \A j \in LogOf("proxy") : \E i \in ResolvedAt : i < j
  /\ fpc = "proxy" => ResolvedAt # {} /\ furl # Undefined
  /\ \A i \in ResolvedAt : \A j \in DOMAIN flog :
       j > i => flog[j].fn = "proxy"

\* C26 witness: Cobalt failed twice, the alternative API answered with a url
\* and every proxy failed: the failure carries that url
C26_ManualAfterFallbackResolver ==
  /\ IsManualFailure
  /\ Cardinality(LogOf("cobalt")) = 2
  /\ \E j \in LogOf("alt") : flog[j].ok
  /\ Cardinality(LogOf("proxy")) = 2 * NumProxies
  /\ fout.value = <<"MANUAL_DOWNLOAD_REQUIRED", "|", "https://cdn/b.mp4?k=1", "|", "2">>

Settles(phase) == phase \in {"resolved", "rejected"}

\* the number of failed attempts that were followed by a wait
WaitedAfter(st) ==
  IF Settles(st.phase) THEN Len(st.attempts) - 1 ELSE Len(st.attempts)

RECURSIVE SumSeq(_)
SumSeq(q) == IF q = <<>> THEN 0 ELSE Head(q) + SumSeq(Tail(q))

\* C27: with retries >= 1, retryWithBackoff calls fn at most retries times,
\* returns the first successful result without calling fn again, waits
\* baseDelay * 2^i after the i-th failed attempt (from 0) only when another
\* attempt follows, and after retries failures in a row rejects with the
\* error of the last attempt; attempts and total wait are bounded.
C27_BoundedRetries ==
  bst.retries >= 1 =>
    /\ bst.calls <= bst.retries
    /\ bst.calls = Len(bst.attempts) + (IF bst.phase = "call" THEN 1 ELSE 0)
    /\ \A j \in 1..(Len(bst.attempts) - 1) : ~bst.attempts[j].ok
    /\ bst.phase = "resolved" <=>
         (bst.attempts # <<>> /\ bst.attempts[Len(bst.attempts)].ok)
    /\ bst.phase = "resolved" =>
         bst.value = bst.attempts[Len(bst.attempts)].v
    /\ bst.phase = "rejected" <=>
         (Len(bst.attempts) = bst.retries /\ ~bst.attempts[bst.retries].ok)
    /\ bst.phase = "rejected" => bst.value = bst.attempts[bst.retries].v
    /\ Len(bst.waits) = WaitedAfter(bst)
    /\ \A j \in DOMAIN bst.waits : bst.waits[j] = bst.baseDelay * 2^(j - 1)
    /\ SumSeq(bst.waits) <= bst.baseDelay * (2^(bst.retries - 1) - 1)

\* C27 witness: three attempts failed, with waits of 1000 and 2000 between
\* them and none after the last, and the call rejected with the last error
C27_RejectedAfterThreeFailures ==
  /\ bst.retries = 3 /\ bst.baseDelay = 1000
  /\ bst.phase = "rejected"
  /\ bst.attempts = <<Fail("e1"), Fail("e1"), Fail("e2")>>
  /\ bst.waits = <<1000, 2000>>
  /\ bst.value = "e2"

(***************************************************************************)
(* Properties of the handlers' error paths, the fallback and the cache     *)
(***************************************************************************)
\* the answer came from the framework's default error handler
FromFramework(reply) == "framework" \in DOMAIN reply.body

\* C31: an exception raised while a request is handled is caught by the
\* endpoint's handler and answered with a JSON error body or a terminal error
\* line: no answer is the framework's generic 500.
C31_NoFrameworkError ==
  /\ \A r \in Req : \A i \in DOMAIN responses[r] :
       ~FromFramework(responses[r][i])
  /\ dpc # "threw"

AllSpace(text) == \A i \in DOMAIN text : IsSpace(text[i])

\* the direct-URL attempt ended with a process error (the timeout's kill
\* included) or without a URL on stdout
DirectFailed ==
  \/ run.hangs = "direct"
  \/ run.direct.err
  \/ AllSpace(run.direct.stdout)

\* C32: the metadata fallback is entered exactly when the direct-URL attempt
\* ends with a process error or with empty stdout; diagnostic text of an
\* attempt that exits 0 with a URL on stdout neither starts the fallback nor
\* gives an error answer.
C32_FallbackOnlyOnFailure ==
  DirectReturned =>
    /\ execCalls[1] = 2 <=> DirectFailed
    /\ ~DirectFailed =>
         /\ execCalls[1] = 1
         /\ rpc[1] = "done"
         /\ Len(responses[1]) = 1
         /\ responses[1][1].status = 200
         /\ "error" \notin DOMAIN responses[1][1].body

\* C32 witness: the tool printed a warning, exited 0 with a URL, and the
\* request was answered without a second invocation
C32_WarningIgnored ==
  /\ DirectReturned /\ ~DirectFailed
  /\ run.direct.stderr = "WARNING: x"
  /\ execCalls[1] = 1
  /\ responses[1][1].status = 200

\* request r is answered 200 in this step with a value it has just built
Produces(r) ==
  /\ rpc[r] \in {"direct", "meta"}
  /\ rpc'[r] = "done"
  /\ Len(responses'[r]) = Len(responses[r]) + 1
  /\ responses'[r][Len(responses'[r])].status = 200

\* C33: the cache changes only by an insert made when a request produced its
\* value (direct URL or parsed metadata): the entry is keyed by the trimmed
\* url of that request, holds the value answered and the time of the insert;
\* the other entries stay as they are and none is removed; no other step
\* changes the cache.
C33_CacheOnlyInserts ==
  [][ metadataCache' # metadataCache =>
        \E r \in Req :
          /\ Produces(r)
          /\ rurl[r] = Trim(rurl[r])
          /\ DOMAIN metadataCache' = DOMAIN metadataCache \cup {rurl[r]}
          /\ metadataCache'[rurl[r]] =
               [data |-> responses'[r][Len(responses'[r])].body,
                timestamp |-> now]
          /\ \A k \in DOMAIN metadataCache :
               k # rurl[r] => metadataCache'[k] = metadataCache[k]
    ]_vars

\* C33 witness: two urls are cached, one of them at a later time than the
\* other, while another request was answered with an error
C33_TwoEntriesKept ==
  /\ Cardinality(DOMAIN metadataCache) = 2
  /\ \E j, k \in DOMAIN metadataCache :
       metadataCache[j].timestamp < metadataCache[k].timestamp

\* C34: when the response is not ok and its body is JSON with an error field
\* E, transcribeUrl rejects with the message E; the 'Server error: <status>'
\* message is used only when the body cannot be read as JSON.
C34_NotOkCarriesServerMessage ==
  (kout.state = "rejected" /\ ~kresp.ok) =>
    IF kresp.body.kind = "json" /\ kresp.body.error # ""
    THEN kout.value.message = kresp.body.error
    ELSE kresp.body.kind # "json" => kout.value.message = ServerError(kresp)

IsResultLine(line) == line \in {<<"{result:", "T}">>, <<"{result:", "U}">>}

ResultTitle(line) == IF line = <<"{result:", "T}">> THEN "T" ELSE "U"

LastResultLine(lines) ==
  lines[CHOOSE i \in DOMAIN lines :
          IsResultLine(lines[i]) /\ \A j \in DOMAIN lines :
                                      IsResultLine(lines[j]) => j <= i]

\* C35: transcribeUrl resolves exactly when the stream ended after a result
\* line was processed and no error line was; it resolves with the data of the
\* last result line and language = targetLanguage; without a result line it
\* rejects, and an error line behind a result line makes it reject all the
\* same.
C35_ResolvesWithLastResult ==
  /\ kout.state = "resolved" => kresp = OkResponse("stream")
  /\ Settled =>
       LET lines == CompleteLines(kstream)
           results == \E i \in DOMAIN lines : IsResultLine(lines[i])
           errors == \E i \in DOMAIN lines : IsErrorLine(lines[i])
       IN /\ kout.state = "resolved" <=> (results /\ ~errors)
          /\ kout.state = "resolved" =>
               /\ kpos = Len(kstream)
               /\ kout.value = [title |-> ResultTitle(LastResultLine(lines)),
                                language |-> klang]
          /\ (~results /\ ~errors) =>
               kout = Rejected("Stream ended without a result")

\* C35 witness: two result lines were read and the call resolved with the
\* second one's data and the language asked for
C35_SecondResultReturned ==
  /\ kstream = <<"{result:", "T}", NL, "{result:", "U}", NL>>
  /\ klang = "Spanish"
  /\ kout = Resolved([title |-> "U", language |-> "Spanish"])

====
